---- MODULE Spec2Model ----
(***************************************************************************)
(* A model of the FlowTrace Rust agent (flowtrace-agent, flowtrace-derive).*)
(*                                                                         *)
(* The runtime side: the trace event schema (TraceEvent), the JSONL sink   *)
(* (Logger), the process-wide tracer (GLOBAL_TRACER with start_tracing,    *)
(* stop_tracing and log_event), the manual Span and the code generated by  *)
(* the #[trace] attribute.                                                 *)
(*                                                                         *)
(* Specifications:                                                         *)
(*   Spec      one host thread calling start_tracing / stop_tracing /      *)
(*             log_event                                                   *)
(*   SpecSpan  one host thread using the tracer and one Span               *)
(*   SpecCall  one host thread calling a #[trace] function                 *)
(*   SpecRace  threads calling start_tracing / stop_tracing / log_event    *)
(*             concurrently, one memory access of GLOBAL_TRACER per step   *)
(*   SpecLog   threads calling log_event concurrently on a tracer that     *)
(*             the main thread started before spawning them                *)
(***************************************************************************)
EXTENDS Integers, Sequences, FiniteSets, TLC

VARIABLES
    GLOBAL_TRACER,  \* lib.rs:143  static mut Option<Arc<Mutex<Logger>>>: 0 is None, s > 0 is sinks[s]
    sinks,          \* the Mutex<Logger> values ever built, in allocation order
    files,          \* the file system: path -> the chunks appended so far
    console,        \* the lines printed to stdout
    clock,          \* SystemTime::now(), in microseconds
    ret,            \* the last call of the host thread and how it came back
    span,           \* the Span value of SpecSpan
    call,           \* the #[trace] call of SpecCall
    emitted,        \* the events handed to log_event by the span or the call, in order
    pc,             \* SpecRace, SpecLog: where each thread is
    loc,            \* SpecRace, SpecLog: each thread's locals
    hist            \* SpecRace, SpecLog: what the threads have observed

vars == <<GLOBAL_TRACER, sinks, files, console, clock, ret, span, call, emitted, pc, loc, hist>>

(***************************************************************************)
(* Bounds                                                                  *)
(***************************************************************************)
MaxSinks == 2       \* Logger values built in one run
MaxLogs == 2        \* log_event calls in one run of Spec

(***************************************************************************)
(* Option<T>                                                               *)
(***************************************************************************)
None == <<>>
Some(x) == <<x>>
is_some(o) == o # None
unwrap(o) == o[1]

(***************************************************************************)
(* Config                                                                  *)
(***************************************************************************)
DefaultLogFile == "flowtrace.jsonl"
NoDirLogFile == "missing-dir/trace.jsonl"

\* The paths OpenOptions::open can open (or create) in the modelled file system.
Openable == {DefaultLogFile}

\* max_arg_length of Config::default() and Config::from_env()
DefaultMaxArgLength == 1000

Config ==
    [package_prefix : {""}, log_file : {DefaultLogFile, NoDirLogFile, ""}, stdout : BOOLEAN,
     max_arg_length : {DefaultMaxArgLength}]

Config_default ==
    [package_prefix |-> "", log_file |-> DefaultLogFile, stdout |-> FALSE,
     max_arg_length |-> DefaultMaxArgLength]

(***************************************************************************)
(* TraceEvent                                                              *)
(***************************************************************************)
MainThread == "ThreadId(1)"

\* The first event of a call labelled as its last.
TraceEvent_enter_as_exit(now, thread, module, function, args) ==
    [event_type |-> "EXIT", timestamp |-> now, module |-> module, function |-> function,
     args |-> None, result |-> args, exception |-> None,
     duration_millis |-> None, duration_micros |-> None, thread |-> thread]

TraceEvent_enter(now, thread, module, function, args) ==
    [event_type |-> "ENTER", timestamp |-> now, module |-> module, function |-> function,
     args |-> args, result |-> None, exception |-> None,
     duration_millis |-> None, duration_micros |-> None, thread |-> thread]

\* duration_micros.map(|d| d / 1000)
\* d / 1000 on i64: the quotient, rounded toward zero
div_i64(d, n) == IF d >= 0 THEN d \div n ELSE -((-d) \div n)

\* The millisecond rounded to the nearest, not down.
millis_rounded(duration_micros) ==
    IF is_some(duration_micros) THEN Some((unwrap(duration_micros) + 500) \div 1000) ELSE None

millis_of(duration_micros) ==
    IF is_some(duration_micros) THEN Some(div_i64(unwrap(duration_micros), 1000)) ELSE None

TraceEvent_exit(now, thread, module, function, result, duration_micros) ==
    [event_type |-> "EXIT", timestamp |-> now, module |-> module, function |-> function,
     args |-> None, result |-> result, exception |-> None,
     duration_millis |-> millis_of(duration_micros), duration_micros |-> duration_micros,
     thread |-> thread]

\* An EXCEPTION event that also carries its message as result.
TraceEvent_exception_result(now, thread, module, function, error, duration_micros) ==
    [event_type |-> "EXCEPTION", timestamp |-> now, module |-> module, function |-> function,
     args |-> None, result |-> Some(error), exception |-> Some(error),
     duration_millis |-> millis_of(duration_micros), duration_micros |-> duration_micros,
     thread |-> thread]

TraceEvent_exception(now, thread, module, function, error, duration_micros) ==
    [event_type |-> "EXCEPTION", timestamp |-> now, module |-> module, function |-> function,
     args |-> None, result |-> None, exception |-> Some(error),
     duration_millis |-> millis_of(duration_micros), duration_micros |-> duration_micros,
     thread |-> thread]

\* serde: the renamed keys, and the Option fields skipped when None.
RequiredKeys == {"event", "timestamp", "class", "method", "thread"}
OptionalKeys == {"args", "result", "exception", "durationMillis", "durationMicros"}

FieldOf(ev, key) ==
    CASE key = "event" -> ev.event_type
      [] key = "timestamp" -> ev.timestamp
      [] key = "class" -> ev.module
      [] key = "method" -> ev.function
      [] key = "thread" -> ev.thread
      [] key = "args" -> ev.args
      [] key = "result" -> ev.result
      [] key = "exception" -> ev.exception
      [] key = "durationMillis" -> ev.duration_millis
      [] key = "durationMicros" -> ev.duration_micros

\* serde_json::to_string(&event): the JSON object, as a function from its keys.
to_string(ev) ==
    [key \in RequiredKeys \cup {k \in OptionalKeys : is_some(FieldOf(ev, k))} |->
        IF key \in OptionalKeys THEN unwrap(FieldOf(ev, key)) ELSE FieldOf(ev, key)]

(***************************************************************************)
(* The world the tracer acts on, as one record, so that a handler that     *)
(* logs several events is one step.                                        *)
(***************************************************************************)
World == [tracer |-> GLOBAL_TRACER, sinks |-> sinks, files |-> files, console |-> console]

Commit(w) ==
    /\ GLOBAL_TRACER' = w.tracer
    /\ sinks' = w.sinks
    /\ files' = w.files
    /\ console' = w.console

\* What the operating system does with one Logger::log: the write_all to the file
\* ("ok", "partial": an error after some bytes went out, "fail": an error at once)
\* and the print! to stdout ("ok", "fail").
IoOutcomes == [file : {"ok", "partial", "fail"}, stdout : {"ok", "fail"}]
IoOk == [file |-> "ok", stdout |-> "ok"]

\* A line goes to the file as two chunks of bytes: its head, and its tail ending in "\n".
Chunk(json, part) == [line |-> json, part |-> part]

(***************************************************************************)
(* Logger                                                                  *)
(***************************************************************************)
\* Logger::new: Ok(logger) or Err(io error) when the open fails.
Logger_new(config) ==
    IF config.log_file # "" /\ config.log_file \notin Openable
    THEN [ok |-> FALSE, logger |-> None]
    ELSE [ok |-> TRUE,
          logger |-> Some([config |-> config,
                           file |-> IF config.log_file # "" THEN Some(config.log_file) ELSE None,
                           poisoned |-> FALSE,
                           holder |-> 0,
                           dropped |-> FALSE])]

\* A write at the start of the file, as of a file not opened with append(true).
write_all_from_start(fs, path, json, outcome) ==
    CASE outcome = "ok" -> [fs EXCEPT ![path] = <<Chunk(json, "head"), Chunk(json, "tail")>>]
      [] outcome = "partial" -> [fs EXCEPT ![path] = <<Chunk(json, "head")>>]
      [] outcome = "fail" -> fs

\* file.write_all(line.as_bytes()); the result is ignored (let _ =).
write_all(fs, path, json, outcome) ==
    CASE outcome = "ok" ->
            [fs EXCEPT ![path] = @ \o <<Chunk(json, "head"), Chunk(json, "tail")>>]
      [] outcome = "partial" -> [fs EXCEPT ![path] = Append(@, Chunk(json, "head"))]
      [] outcome = "fail" -> fs

\* Logger::log on sinks[s]. print! panics when the write to stdout fails.
Logger_log(w, s, ev, io) ==
    LET logger == w.sinks[s]
        json == to_string(ev)
        fs == IF is_some(logger.file)
              THEN write_all(w.files, unwrap(logger.file), json, io.file)
              ELSE w.files
    IN  IF logger.config.stdout
        THEN IF io.stdout = "ok"
             THEN [w |-> [w EXCEPT !.files = fs, !.console = Append(@, json)], panicked |-> FALSE]
             ELSE [w |-> [w EXCEPT !.files = fs], panicked |-> TRUE]
        ELSE [w |-> [w EXCEPT !.files = fs], panicked |-> FALSE]

(***************************************************************************)
(* The global tracer, one call at a time                                   *)
(***************************************************************************)
\* start_tracing without the is_some() check: a second start replaces the Sink.
start_tracing_overwrite(w, config) ==
    LET made == Logger_new(config)
    IN  IF ~made.ok
        THEN [w |-> w, val |-> "IoError"]
        ELSE [w |-> [w EXCEPT !.sinks = Append(@, unwrap(made.logger)),
                              !.tracer = Len(w.sinks) + 1],
              val |-> "Ok"]

\* A start_tracing that installs a Logger without file when the open fails.
start_tracing_fileless(w, config) ==
    IF w.tracer # 0
    THEN [w |-> w, val |-> "AlreadyStarted"]
    ELSE LET made == Logger_new(config)
             fileless == unwrap(Logger_new([config EXCEPT !.log_file = ""]).logger)
         IN  [w |-> [w EXCEPT !.sinks = Append(@, IF made.ok THEN unwrap(made.logger)
                                                  ELSE fileless),
                              !.tracer = Len(w.sinks) + 1],
              val |-> IF made.ok THEN "Ok" ELSE "IoError"]

\* start_tracing(config)
start_tracing(w, config) ==
    IF w.tracer # 0
    THEN [w |-> w, val |-> "AlreadyStarted"]
    ELSE LET made == Logger_new(config)
         IN  IF ~made.ok
             THEN [w |-> w, val |-> "IoError"]
             ELSE [w |-> [w EXCEPT !.sinks = Append(@, unwrap(made.logger)),
                                   !.tracer = Len(w.sinks) + 1],
                   val |-> "Ok"]

\* Dropping the last Arc drops the Logger, which flushes and closes its file:
\* what is left is freed memory, and holds no Logger any more.
Freed ==
    [config |-> Config_default, file |-> None, poisoned |-> FALSE, holder |-> 0, dropped |-> TRUE]

drop_sink(ss, s) == [ss EXCEPT ![s] = Freed]

\* stop_tracing that releases the Logger but leaves the static pointing at it.
stop_tracing_keep(w) ==
    IF w.tracer = 0
    THEN w
    ELSE [w EXCEPT !.sinks = [@ EXCEPT ![w.tracer] = Freed]]

\* stop_tracing()
stop_tracing(w) ==
    IF w.tracer = 0
    THEN w
    ELSE [w EXCEPT !.tracer = 0, !.sinks = drop_sink(@, w.tracer)]

\* A log_event that takes the tracer for granted and panics without one.
log_event_expecting(w, ev, io) ==
    IF w.tracer = 0
    THEN [w |-> w, panicked |-> TRUE]
    ELSE IF w.sinks[w.tracer].poisoned
         THEN [w |-> w, panicked |-> FALSE]
         ELSE LET r == Logger_log(w, w.tracer, ev, io)
              IN  IF r.panicked
                  THEN [w |-> [r.w EXCEPT !.sinks[w.tracer].poisoned = TRUE], panicked |-> TRUE]
                  ELSE r

\* log_event(event): nothing without a tracer, nothing when the lock is poisoned;
\* a panic inside Logger::log poisons the lock on its way out.
log_event(w, ev, io) ==
    IF w.tracer = 0
    THEN [w |-> w, panicked |-> FALSE]
    ELSE IF w.sinks[w.tracer].poisoned
         THEN [w |-> w, panicked |-> FALSE]
         ELSE LET r == Logger_log(w, w.tracer, ev, io)
              IN  IF r.panicked
                  THEN [w |-> [r.w EXCEPT !.sinks[w.tracer].poisoned = TRUE], panicked |-> TRUE]
                  ELSE r

\* The Global Tracer's two states.
Running == GLOBAL_TRACER # 0
Uninitialized == GLOBAL_TRACER = 0

(***************************************************************************)
(* Spec: one host thread and the tracer                                    *)
(***************************************************************************)
Modules == {"app"}
Functions == {"work"}

\* The events a host hands to log_event.
HostEvents(now) ==
    {TraceEvent_enter(now, MainThread, "app", "work", None),
     TraceEvent_exit(now, MainThread, "app", "work", Some("7"), Some(1500)),
     TraceEvent_exception(now, MainThread, "app", "work", "boom", Some(999))}

NoSpan ==
    [state |-> "none", id |-> 0, module |-> "", function |-> "",
     tags |-> <<>>, error |-> None, unwinding |-> FALSE]

NoCall ==
    [state |-> "none",
     fn |-> [name |-> "", is_async |-> FALSE, output |-> <<>>, params |-> <<>>],
     args |-> <<>>,
     body |-> [kind |-> "none", val |-> [type |-> "()", val |-> ""]],
     outcome |-> [kind |-> "none", val |-> [type |-> "()", val |-> ""]]]

InitCommon ==
    /\ GLOBAL_TRACER = 0
    /\ sinks = <<>>
    /\ files = [p \in Openable |-> <<>>]
    /\ console = <<>>
    /\ clock = 0
    /\ ret = [op |-> "none", val |-> "Ok"]
    /\ span = NoSpan
    /\ call = NoCall
    /\ emitted = <<>>

Init ==
    /\ InitCommon
    /\ pc = <<>>
    /\ loc = <<>>
    /\ hist = <<>>

StartTracing(config) ==
    /\ GLOBAL_TRACER = 0 => Len(sinks) < MaxSinks
    /\ LET r == start_tracing(World, config)
       IN  /\ Commit(r.w)
           /\ ret' = [op |-> "start_tracing", val |-> r.val]
    /\ UNCHANGED <<clock, span, call, emitted, pc, loc, hist>>

StopTracing ==
    /\ Commit(stop_tracing(World))
    /\ ret' = [op |-> "stop_tracing", val |-> "Ok"]
    /\ UNCHANGED <<clock, span, call, emitted, pc, loc, hist>>

LogEvent(ev, io) ==
    /\ clock < MaxLogs
    /\ clock' = clock + 1
    /\ LET r == log_event(World, ev, io)
       IN  /\ Commit(r.w)
           /\ ret' = [op |-> "log_event", val |-> IF r.panicked THEN "panic" ELSE "Ok"]
    /\ UNCHANGED <<span, call, emitted, pc, loc, hist>>

Next ==
    \/ \E config \in Config : StartTracing(config)
    \/ StopTracing
    \/ \E ev \in HostEvents(clock), io \in IoOutcomes : LogEvent(ev, io)

Spec == Init /\ [][Next]_vars

(***************************************************************************)
(* Span (span.rs), SpecSpan: one host thread, the tracer and the life of   *)
(* one Span                                                                *)
(***************************************************************************)
TagKeys == {"user_id", "action"}
TagValues == {"1", "2"}
Errors == {"boom", "late"}
\* start_time.elapsed().as_micros(), as read at some later moment
Elapsed == {999, 2001}

\* The orders in which a HashMap with these keys may be iterated.
Orders(keys) ==
    {o \in [1..Cardinality(keys) -> keys] : \A i, j \in DOMAIN o : i # j => o[i] # o[j]}

\* if self.tags.is_empty() { None } else { Some(format!("{:?}", self.tags)) }
tags_result(tags, order) ==
    IF DOMAIN tags = {}
    THEN None
    ELSE Some([i \in DOMAIN order |-> <<order[i], tags[order[i]]>>])

\* Span::new, after its log_event
Span_new(id, module, function) ==
    [state |-> "live", id |-> id, module |-> module, function |-> function,
     tags |-> <<>>, error |-> None, unwinding |-> FALSE]

\* A set_tag that starts a new map with the one key.
set_tag_alone(sp, key, value) == [sp EXCEPT !.tags = [k \in {key} |-> value]]

\* self.tags.insert(key.into(), value.to_string())
set_tag(sp, key, value) ==
    [sp EXCEPT !.tags = [k \in DOMAIN sp.tags \cup {key} |->
                            IF k = key THEN value ELSE sp.tags[k]]]

\* self.error = Some(error.to_string())
set_error(sp, error) == [sp EXCEPT !.error = Some(error)]

\* self.start_time.elapsed().as_micros() as i64, for a time that fits an i64
duration_micros(elapsed) == elapsed

\* A drop that logs the EXIT event whether or not the thread is panicking.
Span_drop_always(w, sp, now, panicking, elapsed, order, io) ==
    LET ev == TraceEvent_exit(now, MainThread, sp.module, sp.function,
                              tags_result(sp.tags, order), Some(elapsed))
        r == log_event(w, ev, io)
    IN  [w |-> r.w, events |-> <<ev>>, panicked |-> r.panicked]

\* impl Drop for Span: nothing while the thread is panicking, else an EXIT event
\* with the tags, whatever self.error holds.
\* The result: the world, the events handed to log_event, and whether it panicked.
Span_drop(w, sp, now, panicking, elapsed, order, io) ==
    IF panicking
    THEN [w |-> w, events |-> <<>>, panicked |-> FALSE]
    ELSE LET ev == TraceEvent_exit(now, MainThread, sp.module, sp.function,
                                   tags_result(sp.tags, order), Some(elapsed))
             r == log_event(w, ev, io)
         IN  [w |-> r.w, events |-> <<ev>>, panicked |-> r.panicked]

\* Span::end(self): the EXCEPTION or EXIT event, and then self, which end owns,
\* goes out of scope: Drop::drop runs at the closing brace (or while unwinding,
\* when log_event panicked).
Span_end(w, sp, now, elapsed, elapsedAtDrop, order, io, ioAtDrop) ==
    LET ev == IF is_some(sp.error)
              THEN TraceEvent_exception(now, MainThread, sp.module, sp.function,
                                        unwrap(sp.error), Some(elapsed))
              ELSE TraceEvent_exit(now, MainThread, sp.module, sp.function,
                                   tags_result(sp.tags, order), Some(elapsed))
        r == log_event(w, ev, io)
        d == Span_drop(r.w, sp, now + 1, r.panicked, elapsedAtDrop, order, ioAtDrop)
    IN  [w |-> d.w, events |-> <<ev>> \o d.events, panicked |-> r.panicked \/ d.panicked]

Emit(id, events) == emitted \o [i \in DOMAIN events |-> [id |-> id, ev |-> events[i]]]

\* let span = Span::new(module, function): the ENTER event first; a panic of
\* log_event leaves no Span behind.
SpanNew(module, function, io) ==
    /\ span.state = "none"
    /\ LET id == span.id + 1
           ev == TraceEvent_enter(clock, MainThread, module, function, None)
           r == log_event(World, ev, io)
       IN  /\ Commit(r.w)
           /\ emitted' = Emit(id, <<ev>>)
           /\ span' = IF r.panicked
                      THEN [Span_new(id, module, function) EXCEPT !.state = "unborn"]
                      ELSE Span_new(id, module, function)
           /\ ret' = [op |-> "Span::new", val |-> IF r.panicked THEN "panic" ELSE "Ok"]
    /\ clock' = clock + 1
    /\ UNCHANGED <<call, pc, loc, hist>>

SpanSetTag(key, value) ==
    /\ span.state = "live"
    /\ span' = set_tag(span, key, value)
    /\ ret' = [op |-> "set_tag", val |-> "Ok", key |-> key, value |-> value]
    /\ UNCHANGED <<GLOBAL_TRACER, sinks, files, console, clock, call, emitted, pc, loc, hist>>

SpanSetError(error) ==
    /\ span.state = "live"
    /\ span' = set_error(span, error)
    /\ ret' = [op |-> "set_error", val |-> "Ok"]
    /\ UNCHANGED <<GLOBAL_TRACER, sinks, files, console, clock, call, emitted, pc, loc, hist>>

\* span.duration_micros(): reads the clock of the span and nothing else.
SpanDurationMicros(elapsed) ==
    /\ span.state = "live"
    /\ ret' = [op |-> "duration_micros", val |-> "Ok", micros |-> duration_micros(elapsed)]
    /\ UNCHANGED <<GLOBAL_TRACER, sinks, files, console, clock, span, call, emitted, pc, loc, hist>>

\* span.end()
SpanEnd(elapsed, elapsedAtDrop, order, io, ioAtDrop) ==
    /\ span.state = "live"
    /\ elapsed <= elapsedAtDrop
    /\ LET r == Span_end(World, span, clock, elapsed, elapsedAtDrop, order, io, ioAtDrop)
       IN  /\ Commit(r.w)
           /\ emitted' = Emit(span.id, r.events)
           /\ clock' = clock + Len(r.events)
           /\ ret' = [op |-> "end", val |-> IF r.panicked THEN "panic" ELSE "Ok"]
    /\ span' = [span EXCEPT !.state = "ended"]
    /\ UNCHANGED <<call, pc, loc, hist>>

\* The Span goes out of scope without end(): at the end of its block, or while a
\* panic of the host's own code unwinds through the block.
SpanDrop(panicking, elapsed, order, io) ==
    /\ span.state = "live"
    /\ LET r == Span_drop(World, span, clock, panicking, elapsed, order, io)
       IN  /\ Commit(r.w)
           /\ emitted' = Emit(span.id, r.events)
           /\ clock' = clock + Len(r.events)
           /\ ret' = [op |-> "drop", val |-> IF panicking \/ r.panicked THEN "panic" ELSE "Ok"]
    /\ span' = [span EXCEPT !.state = "dropped", !.unwinding = panicking]
    /\ UNCHANGED <<call, pc, loc, hist>>

\* The configurations and the outcomes of the writes SpecSpan and SpecCall draw
\* from: Logger::log ignores the result of the write to the file (Spec explores
\* it), so here the file takes every line and only the write to stdout may fail.
TracedConfigs == {Config_default, [Config_default EXCEPT !.stdout = TRUE]}
TracedIo == {io \in IoOutcomes : io.file = "ok"}

NextSpan ==
    \/ \E config \in TracedConfigs : StartTracing(config)
    \/ StopTracing
    \/ \E module \in Modules, function \in Functions, io \in TracedIo :
            SpanNew(module, function, io)
    \/ \E key \in TagKeys, value \in TagValues : SpanSetTag(key, value)
    \/ \E error \in Errors : SpanSetError(error)
    \/ \E elapsed \in Elapsed : SpanDurationMicros(elapsed)
    \/ \E elapsed \in Elapsed, elapsedAtDrop \in Elapsed, order \in Orders(DOMAIN span.tags),
           io \in TracedIo, ioAtDrop \in TracedIo :
            SpanEnd(elapsed, elapsedAtDrop, order, io, ioAtDrop)
    \/ \E panicking \in BOOLEAN, elapsed \in Elapsed, order \in Orders(DOMAIN span.tags),
           io \in TracedIo :
            SpanDrop(panicking, elapsed, order, io)

SpecSpan == Init /\ [][NextSpan]_vars

(***************************************************************************)
(* #[trace] (flowtrace-derive), SpecCall: one host thread, the tracer and  *)
(* one call of an instrumented function                                    *)
(***************************************************************************)
\* The functions #[trace] is put on: what the macro reads of the signature.
\* output is the return type as written: no type (ReturnType::Default) or the
\* segments of a type path. AppResult is `type AppResult = Result<i32, String>`.
ReturnTypes == {<<>>, <<"i32">>, <<"Result">>, <<"AppResult">>}
TracedFns ==
    [name : {"work"}, is_async : BOOLEAN, output : ReturnTypes, params : {<<>>, <<"x">>}]

\* (has_return, is_result_type) as trace computes them from the signature.
has_return(fn) == fn.output # <<>>
is_result_type(ty) == ty # <<>> /\ ty[Len(ty)] = "Result"
\* The return types that are a Result<T, E>, under whatever name.
Fallible == {<<"Result">>, <<"AppResult">>}

\* Rust values, with their type; val holds the digits or the characters.
Val(type, val) == [type |-> type, val |-> val]
Unit == Val("()", "")
\* s, n times
RECURSIVE Repeat(_, _)
Repeat(s, n) ==
    IF n = 0 THEN ""
    ELSE LET half == Repeat(s, n \div 2)
         IN  IF n % 2 = 0 THEN half \o half ELSE half \o half \o s
\* The last one is a String longer than the default max_arg_length.
ArgValues ==
    {Val("i32", "7"), Val("String", "hi"), Val("String", Repeat("a", DefaultMaxArgLength + 1))}
ReturnValues == {Val("i32", "14")}
ErrorValues == {Val("String", "neg")}
\* What a panic carries: panic!("literal"), panic!("{}", x), panic_any(42).
PanicPayloads == {Val("&str", "boom"), Val("String", "bad 7"), Val("i32", "42")}
\* The payload of the panic print! raises when stdout cannot be written.
PrintPanic == Val("String", "failed printing to stdout")

\* format!("{:?}", value)
fmt_debug(v) ==
    CASE v.type = "()" -> "()"
      [] v.type \in {"String", "&str"} -> "\"" \o v.val \o "\""
      [] OTHER -> v.val

\* What the original body does with the arguments, when it runs to its end.
Body(kind, val) == [kind |-> kind, val |-> val]
Bodies(fn) ==
    {Body("panic", p) : p \in PanicPayloads} \cup
    CASE fn.output \in Fallible ->
            {Body("return_ok", v) : v \in ReturnValues} \cup {Body("return_err", e) : e \in ErrorValues}
      [] has_return(fn) /\ fn.output \notin Fallible -> {Body("return", v) : v \in ReturnValues}
      [] ~has_return(fn) -> {Body("return", Unit)}

\* format!("{:?}", __flowtrace_result) of what the body returned.
fmt_result(body) ==
    CASE body.kind = "return_ok" -> "Ok(" \o fmt_debug(body.val) \o ")"
      [] body.kind = "return_err" -> "Err(" \o fmt_debug(body.val) \o ")"
      [] OTHER -> fmt_debug(body.val)

\* args_capture: None without arguments, else the "name": {:?} pairs, joined.
args_capture(fn, args) ==
    IF fn.params = <<>>
    THEN None
    ELSE Some([i \in DOMAIN fn.params |-> <<fn.params[i], fmt_debug(args[i])>>])

\* The message taken from a caught panic.
error_msg(panic_info) ==
    IF panic_info.type = "&str" THEN panic_info.val
    ELSE IF panic_info.type = "String" THEN panic_info.val
    ELSE "Unknown panic"

\* An EXIT event without a result, whatever the body returned.
completion_event_bare(fn, body, now, elapsed) ==
    TraceEvent_exit(now, MainThread, "app", fn.name, None, Some(elapsed))

\* The terminal event of a body that came to its end without a panic.
completion_event(fn, body, now, elapsed) ==
    CASE is_result_type(fn.output) /\ body.kind = "return_ok" ->
            TraceEvent_exit(now, MainThread, "app", fn.name, Some(fmt_debug(body.val)), Some(elapsed))
      [] is_result_type(fn.output) /\ body.kind = "return_err" ->
            TraceEvent_exception(now, MainThread, "app", fn.name, fmt_debug(body.val), Some(elapsed))
      [] ~is_result_type(fn.output) /\ (has_return(fn) \/ fn.is_async) ->
            TraceEvent_exit(now, MainThread, "app", fn.name, Some(fmt_result(body)), Some(elapsed))
      [] ~has_return(fn) /\ ~fn.is_async ->
            TraceEvent_exit(now, MainThread, "app", fn.name, Some("()"), Some(elapsed))

\* The ENTER event every branch starts with. A panic of log_event leaves the
\* wrapper before the body has run.
trace_enter(w, fn, args, now, io) ==
    LET ev == TraceEvent_enter(now, MainThread, "app", fn.name, args_capture(fn, args))
        r == log_event(w, ev, io)
    IN  [w |-> r.w, events |-> <<ev>>, panicked |-> r.panicked]

\* The synchronous branches, after the ENTER event: the body runs inside
\* catch_unwind; a caught panic is logged as EXCEPTION and resumed.
\* The result: the world, the events handed to log_event, what the caller gets.
trace_sync_body(w, fn, body, now, elapsed, io) ==
    LET ev == IF body.kind = "panic"
              THEN TraceEvent_exception(now, MainThread, "app", fn.name,
                                        error_msg(body.val), Some(elapsed))
              ELSE completion_event(fn, body, now, elapsed)
        r == log_event(w, ev, io)
    IN  [w |-> r.w, events |-> <<ev>>,
         outcome |-> IF r.panicked THEN Body("panic", PrintPanic) ELSE body]

\* The asynchronous branches, after the ENTER event: async move { body }.await
\* with no catch_unwind around it, so a panic leaves the wrapper at once.
trace_async_body(w, fn, body, now, elapsed, io) ==
    IF body.kind = "panic"
    THEN [w |-> w, events |-> <<>>, outcome |-> body]
    ELSE LET ev == completion_event(fn, body, now, elapsed)
             r == log_event(w, ev, io)
         IN  [w |-> r.w, events |-> <<ev>>,
              outcome |-> IF r.panicked THEN Body("panic", PrintPanic) ELSE body]

NoBody == Body("none", Unit)
\* A call: the function, the arguments, what its body did (none: it has not run
\* to an end) and what the caller got back (none: nothing yet).
CallOf(state, fn, args, body, outcome) ==
    [state |-> state, fn |-> fn, args |-> args, body |-> body, outcome |-> outcome]

\* A call of a synchronous #[trace] function: the whole wrapper.
CallSync(fn, args, body, elapsed, io, ioAtExit) ==
    /\ call.state = "none"
    /\ ~fn.is_async
    /\ LET e == trace_enter(World, fn, args, clock, io)
           b == trace_sync_body(e.w, fn, body, clock + 1, elapsed, ioAtExit)
       IN  IF e.panicked
           THEN /\ Commit(e.w)
                /\ emitted' = Emit(1, e.events)
                /\ clock' = clock + 1
                /\ call' = CallOf("done", fn, args, NoBody, Body("panic", PrintPanic))
                /\ ret' = [op |-> "call", val |-> Body("panic", PrintPanic)]
           ELSE /\ Commit(b.w)
                /\ emitted' = Emit(1, e.events \o b.events)
                /\ clock' = clock + 2
                /\ call' = CallOf("done", fn, args, body, b.outcome)
                /\ ret' = [op |-> "call", val |-> b.outcome]
    /\ UNCHANGED <<span, pc, loc, hist>>

\* A call of an async #[trace] function returns a future; nothing has run yet.
CallAsync(fn, args) ==
    /\ call.state = "none"
    /\ fn.is_async
    /\ call' = CallOf("future", fn, args, NoBody, NoBody)
    /\ ret' = [op |-> "call", val |-> Body("future", Unit)]
    /\ UNCHANGED <<GLOBAL_TRACER, sinks, files, console, clock, span, emitted, pc, loc, hist>>

\* The first poll of the future: the ENTER event, and the body up to its first
\* await.
PollFirst(io) ==
    /\ call.state = "future"
    /\ LET e == trace_enter(World, call.fn, call.args, clock, io)
       IN  /\ Commit(e.w)
           /\ emitted' = Emit(1, e.events)
           /\ call' = [call EXCEPT !.state = IF e.panicked THEN "done" ELSE "awaiting",
                                   !.outcome = IF e.panicked THEN Body("panic", PrintPanic) ELSE @]
           /\ ret' = [op |-> "poll",
                      val |-> IF e.panicked THEN Body("panic", PrintPanic) ELSE Body("pending", Unit)]
    /\ clock' = clock + 1
    /\ UNCHANGED <<span, pc, loc, hist>>

\* The poll in which the body comes to its end.
PollLast(body, elapsed, io) ==
    /\ call.state = "awaiting"
    /\ LET b == trace_async_body(World, call.fn, body, clock, elapsed, io)
       IN  /\ Commit(b.w)
           /\ emitted' = Emit(1, b.events)
           /\ clock' = clock + Len(b.events)
           /\ ret' = [op |-> "poll", val |-> b.outcome]
           /\ call' = [call EXCEPT !.state = "done", !.body = body, !.outcome = b.outcome]
    /\ UNCHANGED <<span, pc, loc, hist>>

\* The caller drops the future before it is done (a timeout, a select).
DropFuture ==
    /\ call.state \in {"future", "awaiting"}
    /\ call' = [call EXCEPT !.state = "cancelled"]
    /\ ret' = [op |-> "drop_future", val |-> Body("return", Unit)]
    /\ UNCHANGED <<GLOBAL_TRACER, sinks, files, console, clock, span, emitted, pc, loc, hist>>

ArgsOf(fn) == [DOMAIN fn.params -> ArgValues]

NextCall ==
    \/ \E config \in TracedConfigs : StartTracing(config)
    \/ StopTracing
    \/ \E fn \in TracedFns : \E args \in ArgsOf(fn), body \in Bodies(fn), elapsed \in Elapsed,
           io \in TracedIo, ioAtExit \in TracedIo :
            CallSync(fn, args, body, elapsed, io, ioAtExit)
    \/ \E fn \in TracedFns : \E args \in ArgsOf(fn) : CallAsync(fn, args)
    \/ \E io \in TracedIo : PollFirst(io)
    \/ \E body \in Bodies(call.fn), elapsed \in Elapsed, io \in TracedIo :
            PollLast(body, elapsed, io)
    \/ DropFuture

SpecCall == Init /\ [][NextCall]_vars

(***************************************************************************)
(* Nesting, SpecNest: one host thread, a Running tracer, and instrumented   *)
(* calls and Spans opened inside one another. call holds the ones in       *)
(* progress, the outermost first.                                          *)
(***************************************************************************)
MaxDepth == 2     \* instrumented calls and Spans in progress at once
MaxFrames == 3    \* instrumented calls and Spans begun in a behaviour

\* The function of the calls: synchronous, returning a Result.
NestFn == [name |-> "work", is_async |-> FALSE, output |-> <<"Result">>, params |-> <<>>]

\* A call or Span in progress; id tells its events from the others'.
Frame(id, kind) ==
    [id |-> id, kind |-> kind,
     sp |-> IF kind = "span" THEN Span_new(id, "app", NestFn.name) ELSE NoSpan]

\* One reading of the clock and one panic are enough here: the order of the
\* events does not depend on them.
NestElapsed == {999}
NestPayloads == {Val("&str", "boom")}

Tagged(id, events) == [i \in DOMAIN events |-> [id |-> id, ev |-> events[i]]]

\* A frame is left by a panic: the catch_unwind of an instrumented call catches
\* it, logs the EXCEPTION event and resumes it; a Span is dropped with the
\* thread panicking.
frame_unwound(w, top, payload, now, elapsed, io) ==
    IF top.kind = "call"
    THEN trace_sync_body(w, NestFn, Body("panic", payload), now, elapsed, io)
    ELSE Span_drop(w, top.sp, now, TRUE, elapsed, <<>>, io)

\* The events of one frame, then those of the frames left after it.
unwound(id, left, rest) ==
    [w |-> rest.w, events |-> Tagged(id, left.events) \o rest.events]

\* A panic goes up through the frames from the innermost to the outermost, each
\* frame as it would not have been left first.
RECURSIVE unwind_outermost_first(_, _, _, _, _, _)
RECURSIVE unwind_inner_after(_, _, _, _, _, _)
unwind_inner_after(frames, left, payload, now, elapsed, io) ==
    unwound(Head(frames).id, left,
            unwind_outermost_first(left.w, Tail(frames), payload,
                                   now + Len(left.events), elapsed, io))

unwind_outermost_first(w, frames, payload, now, elapsed, io) ==
    IF frames = <<>> THEN [w |-> w, events |-> <<>>]
    ELSE unwind_inner_after(frames,
                            frame_unwound(w, Head(frames), payload, now, elapsed, io),
                            payload, now, elapsed, io)

\* A panic goes up through the frames, the innermost first.
RECURSIVE unwind(_, _, _, _, _, _)
RECURSIVE unwind_outer(_, _, _, _, _, _)
unwind_outer(frames, left, payload, now, elapsed, io) ==
    unwound(frames[Len(frames)].id, left,
            unwind(left.w, SubSeq(frames, 1, Len(frames) - 1), payload,
                   now + Len(left.events), elapsed, io))

unwind(w, frames, payload, now, elapsed, io) ==
    IF frames = <<>> THEN [w |-> w, events |-> <<>>]
    ELSE unwind_outer(frames,
                      frame_unwound(w, frames[Len(frames)], payload, now, elapsed, io),
                      payload, now, elapsed, io)

Begun == Cardinality({i \in DOMAIN emitted : emitted[i].ev.event_type = "ENTER"})

\* The thread has left every frame by a panic: before, the events of the step
\* that panicked, read at `used` ticks of the clock.
Unwound(op, before, used, u) ==
    /\ Commit(u.w)
    /\ emitted' = emitted \o before \o u.events
    /\ clock' = clock + used + Len(u.events)
    /\ call' = <<>>
    /\ ret' = [op |-> op, val |-> "panic"]

\* The ENTER event has been asked for; a panic of log_event unwinds the frames
\* there are.
Entered(id, kind, e, elapsed, io) ==
    IF e.panicked
    THEN Unwound("enter", Tagged(id, e.events), 1,
                 unwind(e.w, call, PrintPanic, clock + 1, elapsed, io))
    ELSE /\ Commit(e.w)
         /\ emitted' = emitted \o Tagged(id, e.events)
         /\ clock' = clock + 1
         /\ call' = Append(call, Frame(id, kind))
         /\ ret' = [op |-> "enter", val |-> "Ok"]

\* An instrumented function is called, or Span::new, inside the innermost frame:
\* the ENTER event.
NestEnter(kind, elapsed, io) ==
    /\ Len(call) < MaxDepth
    /\ Begun < MaxFrames
    /\ Entered(clock + 1, kind, trace_enter(World, NestFn, <<>>, clock, io), elapsed, io)
    /\ UNCHANGED <<span, pc, loc, hist>>

\* What the wrapper of an instrumented call has done, as a Span's end tells it.
call_left(c) ==
    [w |-> c.w, events |-> c.events, panicked |-> c.outcome = Body("panic", PrintPanic)]

\* The innermost frame comes to its end: the body of the call returns; the Span
\* is ended with end(), or dropped at the end of its block.
frame_left(w, top, body, how, now, elapsed, io) ==
    IF top.kind = "call"
    THEN call_left(trace_sync_body(w, NestFn, body, now, elapsed, io))
    ELSE IF how = "end"
         THEN Span_end(w, top.sp, now, elapsed, elapsed, <<>>, io, io)
         ELSE Span_drop(w, top.sp, now, FALSE, elapsed, <<>>, io)

\* The innermost frame has been left; a panic of log_event there unwinds the
\* outer frames.
Left(top, outer, left, elapsed, io) ==
    IF left.panicked
    THEN Unwound("leave", Tagged(top.id, left.events), Len(left.events),
                 unwind(left.w, outer, PrintPanic, clock + Len(left.events), elapsed, io))
    ELSE /\ Commit(left.w)
         /\ emitted' = emitted \o Tagged(top.id, left.events)
         /\ clock' = clock + Len(left.events)
         /\ call' = outer
         /\ ret' = [op |-> "leave", val |-> "Ok"]

NestLeave(body, how, elapsed, io) ==
    /\ call # <<>>
    /\ Left(call[Len(call)], SubSeq(call, 1, Len(call) - 1),
            frame_left(World, call[Len(call)], body, how, clock, elapsed, io),
            elapsed, io)
    /\ UNCHANGED <<span, pc, loc, hist>>

\* The code of the innermost frame panics.
NestPanic(payload, elapsed, io) ==
    /\ call # <<>>
    /\ Unwound("panic", <<>>, 0, unwind(World, call, payload, clock, elapsed, io))
    /\ UNCHANGED <<span, pc, loc, hist>>

\* The host has started the tracer before the first call.
InitNest ==
    \E config \in TracedConfigs :
        LET started == start_tracing([tracer |-> 0, sinks |-> <<>>,
                                      files |-> [p \in Openable |-> <<>>],
                                      console |-> <<>>], config).w
        IN  /\ GLOBAL_TRACER = started.tracer
            /\ sinks = started.sinks
            /\ files = started.files
            /\ console = started.console
            /\ clock = 0
            /\ ret = [op |-> "start_tracing", val |-> "Ok"]
            /\ span = NoSpan
            /\ call = <<>>
            /\ emitted = <<>>
            /\ pc = <<>>
            /\ loc = <<>>
            /\ hist = <<>>

NextNest ==
    \/ \E kind \in {"call", "span"}, elapsed \in NestElapsed, io \in TracedIo :
            NestEnter(kind, elapsed, io)
    \/ \E body \in {b \in Bodies(NestFn) : b.kind # "panic"}, how \in {"end", "drop"},
           elapsed \in NestElapsed, io \in TracedIo :
            NestLeave(body, how, elapsed, io)
    \/ \E payload \in NestPayloads, elapsed \in NestElapsed, io \in TracedIo :
            NestPanic(payload, elapsed, io)

SpecNest == InitNest /\ [][NextNest]_vars

(***************************************************************************)
(* Threads. GLOBAL_TRACER is a static mut read and written with no         *)
(* synchronisation (lib.rs:143-173): a step is one access of it, one lock  *)
(* operation or one write to the file.                                     *)
(***************************************************************************)
NThreads == 2       \* threads using the tracer
OpsPerThread == 2   \* calls each thread makes

Threads == 1..NThreads

\* format!("{:?}", std::thread::current().id()); the main thread is ThreadId(1).
ThreadName(t) == "ThreadId(" \o ToString(t + 1) \o ")"

NoEvent == TraceEvent_enter(0, "", "", "", None)

Idle(n) == [op |-> "none", config |-> Config_default, ev |-> NoEvent, sink |-> 0, n |-> n]

InitThreads ==
    /\ InitCommon
    /\ pc = [t \in Threads |-> "idle"]
    /\ loc = [t \in Threads |-> Idle(0)]
    /\ hist = [startsOk |-> 0, stops |-> 0, usedReleased |-> FALSE, aborted |-> FALSE,
               diskFull |-> FALSE, stdoutClosed |-> FALSE, ioFailed |-> FALSE, logged |-> {}]

\* The thread's call returns.
Return(t) ==
    /\ pc' = [pc EXCEPT ![t] = "idle"]
    /\ loc' = [loc EXCEPT ![t] = Idle(loc[t].n + 1)]

CanCall(t) == pc[t] = "idle" /\ loc[t].n < OpsPerThread /\ ~hist.aborted
At(t, label) == pc[t] = label /\ ~hist.aborted

\* The lock left out: every caller gets the Logger at once.
lock_unguarded(mutex) ==
    IF mutex.poisoned THEN "poisoned" ELSE "acquired"

\* try_lock() in place of lock(): a caller that finds the lock held gets an Err.
lock_try(mutex) ==
    IF mutex.poisoned THEN "poisoned"
    ELSE IF mutex.holder = 0 THEN "acquired"
    ELSE "busy"

\* tracer.lock(): Err when poisoned, else the guard once no other thread holds it.
lock(mutex) ==
    IF mutex.poisoned THEN "poisoned"
    ELSE IF mutex.holder = 0 THEN "acquired"
    ELSE "blocked"

\* A thread touches a Mutex<Logger> that has been freed: the build may go on
\* with the write lost (the file is closed) or the process may die.
UseReleased(t) ==
    /\ \E dies \in BOOLEAN :
          hist' = [hist EXCEPT !.usedReleased = TRUE, !.aborted = dies]
    /\ Return(t)
    /\ UNCHANGED <<GLOBAL_TRACER, sinks, files, console, clock, ret, span, call, emitted>>

\* ---- start_tracing(config) ----
S_call(t, config) ==
    /\ CanCall(t)
    /\ pc' = [pc EXCEPT ![t] = "s_check"]
    /\ loc' = [loc EXCEPT ![t].op = "start_tracing", ![t].config = config]
    /\ UNCHANGED <<GLOBAL_TRACER, sinks, files, console, clock, ret, span, call, emitted, hist>>

\* if GLOBAL_TRACER.is_some() { return Err(..) }
S_check(t) ==
    /\ At(t, "s_check")
    /\ IF is_some(IF GLOBAL_TRACER = 0 THEN None ELSE Some(GLOBAL_TRACER))
       THEN Return(t)
       ELSE pc' = [pc EXCEPT ![t] = "s_new"] /\ loc' = loc
    /\ UNCHANGED <<GLOBAL_TRACER, sinks, files, console, clock, ret, span, call, emitted, hist>>

\* let logger = Logger::new(config)?; Arc::new(Mutex::new(logger))
S_new(t) ==
    /\ At(t, "s_new")
    /\ LET made == Logger_new(loc[t].config)
       IN  IF made.ok
           THEN /\ sinks' = Append(sinks, unwrap(made.logger))
                /\ pc' = [pc EXCEPT ![t] = "s_store"]
                /\ loc' = [loc EXCEPT ![t].sink = Len(sinks) + 1]
           ELSE /\ sinks' = sinks
                /\ Return(t)
    /\ UNCHANGED <<GLOBAL_TRACER, files, console, clock, ret, span, call, emitted, hist>>

\* GLOBAL_TRACER = Some(..): drops the value the static held, stores the new one.
S_store(t) ==
    /\ At(t, "s_store")
    /\ GLOBAL_TRACER' = loc[t].sink
    /\ sinks' = IF GLOBAL_TRACER = 0 THEN sinks ELSE drop_sink(sinks, GLOBAL_TRACER)
    /\ hist' = [hist EXCEPT !.startsOk = @ + 1]
    /\ Return(t)
    /\ UNCHANGED <<files, console, clock, ret, span, call, emitted>>

\* ---- stop_tracing(): GLOBAL_TRACER = None, which drops the value it held ----
P_store(t) ==
    /\ CanCall(t)
    /\ GLOBAL_TRACER' = 0
    /\ sinks' = IF GLOBAL_TRACER = 0 THEN sinks ELSE drop_sink(sinks, GLOBAL_TRACER)
    /\ hist' = [hist EXCEPT !.stops = @ + 1]
    /\ Return(t)
    /\ UNCHANGED <<files, console, clock, ret, span, call, emitted>>

\* ---- log_event(event) ----
\* The caller builds the event, ENTER and EXIT in turn (its timestamp: the
\* thread's own reading of the clock, which differs from call to call);
\* if let Some(tracer) = &GLOBAL_TRACER
L_check(t) ==
    /\ CanCall(t)
    /\ LET now == loc[t].n
           ev == IF loc[t].n % 2 = 0
                 THEN TraceEvent_enter(now, ThreadName(t), "app", "work", None)
                 ELSE TraceEvent_exit(now, ThreadName(t), "app", "work", Some("7"), Some(1500))
       IN  /\ IF GLOBAL_TRACER = 0
              THEN Return(t)
              ELSE /\ pc' = [pc EXCEPT ![t] = "l_lock"]
                   /\ loc' = [loc EXCEPT ![t].op = "log_event", ![t].ev = ev,
                                         ![t].sink = GLOBAL_TRACER]
           /\ hist' = [hist EXCEPT !.logged = @ \cup {ev}]
    /\ UNCHANGED <<GLOBAL_TRACER, sinks, files, console, clock, ret, span, call, emitted>>

\* if let Ok(mut logger) = tracer.lock()
L_lock(t) ==
    /\ At(t, "l_lock")
    /\ LET s == loc[t].sink
       IN  IF sinks[s].dropped
           THEN UseReleased(t)
           ELSE /\ lock(sinks[s]) # "blocked"
                /\ IF lock(sinks[s]) = "acquired"
                   THEN /\ sinks' = [sinks EXCEPT ![s].holder = t]
                        /\ pc' = [pc EXCEPT ![t] = "l_head"]
                        /\ loc' = loc
                   ELSE /\ sinks' = sinks
                        /\ Return(t)
                /\ UNCHANGED <<GLOBAL_TRACER, files, console, clock, ret, span, call, emitted, hist>>

\* Logger::log: write_all, first part of the line
L_head(t) ==
    /\ At(t, "l_head")
    /\ LET s == loc[t].sink
           outcome == IF hist.diskFull THEN "fail" ELSE "ok"
       IN  IF sinks[s].dropped
           THEN UseReleased(t)
           ELSE /\ IF is_some(sinks[s].file)
                   THEN IF outcome = "ok"
                        THEN /\ files' = [files EXCEPT ![unwrap(sinks[s].file)] =
                                             Append(@, Chunk(to_string(loc[t].ev), "head"))]
                             /\ pc' = [pc EXCEPT ![t] = "l_tail"]
                             /\ hist' = hist
                        ELSE /\ files' = files
                             /\ pc' = [pc EXCEPT ![t] = "l_print"]
                             /\ hist' = [hist EXCEPT !.ioFailed = TRUE]
                   ELSE /\ files' = files
                        /\ pc' = [pc EXCEPT ![t] = "l_print"]
                        /\ hist' = hist
                /\ UNCHANGED <<GLOBAL_TRACER, sinks, console, clock, ret, span, call, emitted, loc>>

\* Logger::log: the rest of the line when its first part went out, then print!
\* when config.stdout, then the guard is dropped. A panic of print! poisons the
\* lock and ends the thread.
L_rest(t) ==
    /\ At(t, "l_tail") \/ At(t, "l_print")
    /\ LET s == loc[t].sink
           tailFails == pc[t] = "l_tail" /\ hist.diskFull
           printFails == sinks[s].config.stdout /\ hist.stdoutClosed
       IN  IF sinks[s].dropped
           THEN UseReleased(t)
           ELSE /\ files' = IF pc[t] = "l_tail" /\ ~tailFails
                            THEN [files EXCEPT ![unwrap(sinks[s].file)] =
                                     Append(@, Chunk(to_string(loc[t].ev), "tail"))]
                            ELSE files
                /\ hist' = [hist EXCEPT !.ioFailed = @ \/ tailFails \/ printFails]
                /\ IF printFails
                   THEN /\ sinks' = [sinks EXCEPT ![s].holder = 0, ![s].poisoned = TRUE]
                        /\ console' = console
                        /\ pc' = [pc EXCEPT ![t] = "panicked"]
                        /\ loc' = loc
                   ELSE /\ sinks' = [sinks EXCEPT ![s].holder = 0]
                        /\ console' = IF sinks[s].config.stdout
                                      THEN Append(console, to_string(loc[t].ev))
                                      ELSE console
                        /\ Return(t)
                /\ UNCHANGED <<GLOBAL_TRACER, clock, ret, span, call, emitted>>

LogSteps(t) ==
    \/ L_check(t)
    \/ L_lock(t)
    \/ L_head(t)
    \/ L_rest(t)

\* The environment of the threads: from some moment on the disk is full and
\* every write to the file fails; from some moment on stdout is closed and every
\* print! panics.
DiskFills ==
    /\ ~hist.diskFull /\ ~hist.aborted
    /\ hist' = [hist EXCEPT !.diskFull = TRUE]
    /\ UNCHANGED <<GLOBAL_TRACER, sinks, files, console, clock, ret, span, call, emitted, pc, loc>>

StdoutCloses ==
    /\ ~hist.stdoutClosed /\ ~hist.aborted
    /\ hist' = [hist EXCEPT !.stdoutClosed = TRUE]
    /\ UNCHANGED <<GLOBAL_TRACER, sinks, files, console, clock, ret, span, call, emitted, pc, loc>>

NextRace ==
    \/ \E t \in Threads :
        \/ \E config \in TracedConfigs : S_call(t, config)
        \/ S_check(t)
        \/ S_new(t)
        \/ S_store(t)
        \/ P_store(t)
        \/ LogSteps(t)
    \/ DiskFills
    \/ StdoutCloses

SpecRace == InitThreads /\ [][NextRace]_vars

\* The steps that take a call in progress of thread t further.
Proceed(t) ==
    \/ S_check(t)
    \/ S_new(t)
    \/ S_store(t)
    \/ L_lock(t)
    \/ L_head(t)
    \/ L_rest(t)

\* SpecRaceFair: the scheduler lets every thread run: a thread whose next step
\* stays possible takes it.
SpecRaceFair == SpecRace /\ \A t \in Threads : WF_vars(Proceed(t))

\* SpecLog: the main thread has started the tracer and then spawned the threads,
\* which only log; the disk takes every write and stdout stays open (SpecRace and
\* Spec have the failing writes).
InitLog ==
    \E config \in TracedConfigs :
        LET started == start_tracing([tracer |-> 0, sinks |-> <<>>,
                                      files |-> [p \in Openable |-> <<>>],
                                      console |-> <<>>], config).w
        IN  /\ GLOBAL_TRACER = started.tracer
            /\ sinks = started.sinks
            /\ files = started.files
            /\ console = started.console
            /\ clock = 0
            /\ ret = [op |-> "start_tracing", val |-> "Ok"]
            /\ span = NoSpan
            /\ call = NoCall
            /\ emitted = <<>>
            /\ pc = [t \in Threads |-> "idle"]
            /\ loc = [t \in Threads |-> Idle(0)]
            /\ hist = [startsOk |-> 1, stops |-> 0, usedReleased |-> FALSE, aborted |-> FALSE,
                       diskFull |-> FALSE, stdoutClosed |-> FALSE, ioFailed |-> FALSE,
                       logged |-> {}]

NextLog == \E t \in Threads : LogSteps(t)

SpecLog == InitLog /\ [][NextLog]_vars

(***************************************************************************)
(* flowctl (flowctl-rs/src/instrumenter.rs), SpecRewrite: one source file  *)
(* and calls of Instrumenter::instrument_file on it; SpecClassify:         *)
(* should_instrument on one function                                       *)
(***************************************************************************)
MaxItems == 2       \* items of a source file
MaxRewrites == 2    \* calls of instrument_file
MaxAttrs == 2       \* attributes of a function given to should_instrument

\* An attribute is known by its path: #[trace] is <<"trace">>, #[tokio::test] is
\* <<"tokio", "test">>.
AttrPaths ==
    {<<"trace">>, <<"flowtrace_agent", "trace">>, <<"test">>, <<"tokio", "test">>,
     <<"cfg">>, <<"bench">>, <<"inline">>}

\* What should_instrument reads of an ItemFn: sig.ident, attrs, block.stmts.len().
Fn(name, attrs, stmts) == [name |-> name, attrs |-> attrs, stmts |-> stmts]
NoFn == Fn("", <<>>, 0)

\* attr.path().is_ident(ident): the path is that one segment
is_ident(path, ident) == path = <<ident>>

\* The attribute's path ends in ident: the attribute, however it is imported.
ends_in(path, ident) == path[Len(path)] = ident

has_trace_attribute(func) ==
    \E i \in DOMAIN func.attrs : is_ident(func.attrs[i], "trace")

is_test_function(func) ==
    \E i \in DOMAIN func.attrs :
        \/ is_ident(func.attrs[i], "test")
        \/ is_ident(func.attrs[i], "cfg")
        \/ is_ident(func.attrs[i], "bench")

starts_with(s, prefix) == Len(s) >= Len(prefix) /\ SubSeq(s, 1, Len(prefix)) = prefix

should_instrument(func) ==
    IF has_trace_attribute(func) THEN FALSE
    ELSE IF is_test_function(func) THEN FALSE
    ELSE IF func.stmts = 0 THEN FALSE
    ELSE IF func.name = "main" \/ func.name = "init" \/ starts_with(func.name, "test_") THEN FALSE
    ELSE TRUE

\* An attribute other than #[trace] is pushed.
add_inline_attribute(func) == [func EXCEPT !.attrs = Append(@, <<"inline">>)]

\* The marker is pushed under its qualified path.
add_qualified_trace_attribute(func) ==
    [func EXCEPT !.attrs = Append(@, <<"flowtrace_agent", "trace">>)]

add_trace_attribute(func) == [func EXCEPT !.attrs = Append(@, <<"trace">>)]

\* The items of a file: a function, an impl block with its methods, a module with
\* its functions, anything else.
ItemFn(func) == [kind |-> "fn", func |-> func, members |-> <<>>]
ItemImpl(methods) == [kind |-> "impl", func |-> NoFn, members |-> methods]
ItemMod(fns) == [kind |-> "mod", func |-> NoFn, members |-> fns]
ItemOther == [kind |-> "struct", func |-> NoFn, members |-> <<>>]

\* The text of a file: its tokens (the items), and whether it has what the
\* tokens do not keep (comments, blank lines, layout). InvalidText is no Rust.
Text(tokens, trivia) == [valid |-> TRUE, tokens |-> tokens, trivia |-> trivia]
InvalidText == [valid |-> FALSE, tokens |-> <<>>, trivia |-> TRUE]

\* syn::parse_file(&content)
parse_file(content) ==
    IF content.valid THEN [ok |-> TRUE, syntax |-> content.tokens]
    ELSE [ok |-> FALSE, syntax |-> <<>>]

\* quote! { #syntax }.to_string(): the tokens, one space between them
quote_to_string(syntax) == Text(syntax, FALSE)

\* The position of the last "." of s, 0 when it has none.
RECURSIVE last_dot(_, _)
last_dot(s, i) ==
    IF i = 0 THEN 0 ELSE IF SubSeq(s, i, i) = "." THEN i ELSE last_dot(s, i - 1)

\* file.with_extension(ext)
with_extension(file, ext) ==
    LET d == last_dot(file, Len(file))
        stem == IF d <= 1 THEN file ELSE SubSeq(file, 1, d - 1)
    IN  stem \o "." \o ext

SourceFile == "lib.rs"
Disk == {SourceFile, with_extension(SourceFile, "rs.bak")}

\* What the operating system does to the calls of one instrument_file: all goes
\* well, read_to_string fails, copy fails, write fails before it has opened the
\* file, write fails after it has truncated the file.
FsOutcomes == {"ok", "read_fails", "copy_fails", "write_fails", "write_cut"}

Err(msg) == [ok |-> FALSE, error |-> msg]
InstrumentResult(functions, backup_path) ==
    [ok |-> TRUE, count |-> Len(functions), functions |-> functions,
     backup_path |-> backup_path]

\* The loop over syntax.items: the names pushed, and the items afterwards.
instrument_items(items, dry_run) ==
    LET chosen(it) == it.kind = "fn" /\ should_instrument(it.func)
        picked == SelectSeq(items, chosen)
    IN  [functions |-> [i \in DOMAIN picked |-> picked[i].func.name],
         syntax |-> [i \in DOMAIN items |->
                        IF chosen(items[i]) /\ ~dry_run
                        THEN [items[i] EXCEPT !.func = add_trace_attribute(@)]
                        ELSE items[i]]]

\* The file is written whatever was selected.
must_write_unselected(dry_run, instrumented_functions) == ~dry_run

\* The file is written whatever dry_run says.
must_write_always(dry_run, instrumented_functions) == instrumented_functions # <<>>

\* if !dry_run && !instrumented_functions.is_empty()
must_write(dry_run, instrumented_functions) ==
    ~dry_run /\ instrumented_functions # <<>>

\* An instrument_file that writes the file first and copies it afterwards.
instrument_file_write_first(fs, create_backup, file, dry_run, io) ==
    IF io = "read_fails" \/ fs[file] = None
    THEN [fs |-> fs, val |-> Err("Failed to read file")]
    ELSE LET parsed == parse_file(unwrap(fs[file]))
             r == instrument_items(parsed.syntax, dry_run)
             backup == with_extension(file, "rs.bak")
             written == [fs EXCEPT ![file] = Some(quote_to_string(r.syntax))]
         IN  IF ~parsed.ok
             THEN [fs |-> fs, val |-> Err("Failed to parse file")]
             ELSE IF ~must_write(dry_run, r.functions)
             THEN [fs |-> fs, val |-> InstrumentResult(r.functions, None)]
             ELSE CASE io = "write_fails" -> [fs |-> fs, val |-> Err("Failed to write file")]
                    [] io = "write_cut" ->
                         [fs |-> [fs EXCEPT ![file] = Some(Text(<<>>, FALSE))],
                          val |-> Err("Failed to write file")]
                    [] create_backup /\ io = "copy_fails" ->
                         [fs |-> written, val |-> Err("Failed to create backup")]
                    [] OTHER ->
                         [fs |-> IF create_backup
                                 THEN [written EXCEPT ![backup] = written[file]]
                                 ELSE written,
                          val |-> InstrumentResult(r.functions,
                                       IF create_backup THEN Some(backup) ELSE None)]

\* Instrumenter::instrument_file: the file system afterwards and the Result.
instrument_file(fs, create_backup, file, dry_run, io) ==
    IF io = "read_fails" \/ fs[file] = None
    THEN [fs |-> fs, val |-> Err("Failed to read file")]
    ELSE LET content == unwrap(fs[file])
             parsed == parse_file(content)
             r == instrument_items(parsed.syntax, dry_run)
             backup == with_extension(file, "rs.bak")
             copied == [fs EXCEPT ![backup] = Some(content)]
             kept == IF create_backup THEN copied ELSE fs
         IN  IF ~parsed.ok
             THEN [fs |-> fs, val |-> Err("Failed to parse file")]
             ELSE IF ~must_write(dry_run, r.functions)
             THEN [fs |-> fs, val |-> InstrumentResult(r.functions, None)]
             ELSE IF create_backup /\ io = "copy_fails"
             THEN [fs |-> fs, val |-> Err("Failed to create backup")]
             ELSE CASE io = "write_fails" ->
                         [fs |-> kept, val |-> Err("Failed to write file")]
                    [] io = "write_cut" ->
                         [fs |-> [kept EXCEPT ![file] = Some(Text(<<>>, FALSE))],
                          val |-> Err("Failed to write file")]
                    [] OTHER ->
                         [fs |-> [kept EXCEPT ![file] = Some(quote_to_string(r.syntax))],
                          val |-> InstrumentResult(r.functions,
                                       IF create_backup THEN Some(backup) ELSE None)]

\* The functions the source files are made of.
SourceFns ==
    {Fn("f", <<>>, 1), Fn("g", << <<"inline">> >>, 2), Fn("traced", << <<"trace">> >>, 1),
     Fn("check", << <<"test">> >>, 1), Fn("main", <<>>, 0)}
SourceItems ==
    {ItemFn(func) : func \in SourceFns} \cup
    {ItemImpl(<<Fn("method", <<>>, 1)>>), ItemMod(<<Fn("helper", <<>>, 1)>>), ItemOther}

\* The sequences over S of at most n elements
RECURSIVE SeqUpTo(_, _)
SeqUpTo(S, n) ==
    IF n = 0 THEN {<<>>}
    ELSE LET shorter == SeqUpTo(S, n - 1)
         IN  shorter \cup {Append(s, x) : s \in {t \in shorter : Len(t) = n - 1}, x \in S}

SourceTexts ==
    {Text(items, trivia) : items \in SeqUpTo(SourceItems, MaxItems), trivia \in BOOLEAN}
        \cup {InvalidText}

InitRewrite ==
    /\ GLOBAL_TRACER = 0
    /\ sinks = <<>>
    /\ \E text \in SourceTexts :
          files = [p \in Disk |-> IF p = SourceFile THEN Some(text) ELSE None]
    /\ console = <<>>
    /\ clock = 0
    /\ ret = [op |-> "none", val |-> "Ok"]
    /\ span = NoSpan
    /\ call = NoCall
    /\ emitted = <<>>
    /\ pc = <<>>
    /\ loc = <<>>
    /\ hist = <<>>

\* flowctl instrument <file> [--dry-run] [--backup]
InstrumentFile(create_backup, dry_run, io) ==
    /\ clock < MaxRewrites
    /\ clock' = clock + 1
    /\ LET r == instrument_file(files, create_backup, SourceFile, dry_run, io)
       IN  /\ files' = r.fs
           /\ ret' = [op |-> "instrument_file", dry_run |-> dry_run,
                      create_backup |-> create_backup, val |-> r.val]
    /\ UNCHANGED <<GLOBAL_TRACER, sinks, console, span, call, emitted, pc, loc, hist>>

\* SpecRewriteMarked: the same calls on source files whose functions may carry
\* the marker under its qualified path, #[flowtrace_agent::trace].
MarkedItems ==
    {ItemFn(Fn("f", <<>>, 1)), ItemFn(Fn("traced", << <<"trace">> >>, 1)),
     ItemFn(Fn("q", << <<"flowtrace_agent", "trace">> >>, 1)), ItemOther}
MarkedTexts ==
    {Text(items, trivia) : items \in SeqUpTo(MarkedItems, MaxItems), trivia \in BOOLEAN}

InitRewriteMarked ==
    /\ GLOBAL_TRACER = 0
    /\ sinks = <<>>
    /\ \E text \in MarkedTexts :
          files = [p \in Disk |-> IF p = SourceFile THEN Some(text) ELSE None]
    /\ console = <<>>
    /\ clock = 0
    /\ ret = [op |-> "none", val |-> "Ok"]
    /\ span = NoSpan
    /\ call = NoCall
    /\ emitted = <<>>
    /\ pc = <<>>
    /\ loc = <<>>
    /\ hist = <<>>

NextRewrite ==
    \E create_backup \in BOOLEAN, dry_run \in BOOLEAN, io \in FsOutcomes :
        InstrumentFile(create_backup, dry_run, io)

SpecRewrite == InitRewrite /\ [][NextRewrite]_vars
SpecRewriteMarked == InitRewriteMarked /\ [][NextRewrite]_vars

\* The functions should_instrument is asked about
FnNames == {"f", "main", "init", "test_x", "test", "tests"}
FnDescs ==
    {Fn(name, attrs, stmts) :
        name \in FnNames, attrs \in SeqUpTo(AttrPaths, MaxAttrs), stmts \in 0..1}

InitClassify ==
    /\ Init
    /\ ret = [op |-> "none", val |-> "Ok"]

ShouldInstrument(func) ==
    /\ ret.op = "none"
    /\ ret' = [op |-> "should_instrument", func |-> func, val |-> should_instrument(func)]
    /\ UNCHANGED <<GLOBAL_TRACER, sinks, files, console, clock, span, call, emitted, pc, loc, hist>>

NextClassify == \E func \in FnDescs : ShouldInstrument(func)

SpecClassify == InitClassify /\ [][NextClassify]_vars

(***************************************************************************)
(* flowctl analyze (flowctl-rs/src/analyzer.rs), SpecScan: a source tree   *)
(* and one call of Analyzer::analyze_path                                  *)
(***************************************************************************)
\* An ItemFn as the visitor reads it: what should_instrument reads, and
\* sig.asyncness, vis and the functions declared inside the body.
ScanFn(name, attrs, stmts, is_async, vis, inner) ==
    [name |-> name, attrs |-> attrs, stmts |-> stmts, is_async |-> is_async,
     vis |-> vis, inner |-> inner]

\* The text of a file with its number of lines.
ScanText(tokens, lines) ==
    [valid |-> TRUE, tokens |-> tokens, trivia |-> TRUE, lines |-> lines]
InvalidScanText == [valid |-> FALSE, tokens |-> <<>>, trivia |-> TRUE, lines |-> 2]

AnalysisStats_default ==
    [total_files |-> 0, total_functions |-> 0, instrumentable_functions |-> 0,
     instrumented_functions |-> 0, total_lines |-> 0, async_functions |-> 0,
     sync_functions |-> 0, public_functions |-> 0, private_functions |-> 0]

\* The ItemFn nodes visit_item_fn is called on, in the order of the visit: the
\* functions of the file and of its modules, and the functions declared inside a
\* function body; a method of an impl block is an ImplItemFn, which the visitor
\* walks through (for the functions declared in its body) without a call of
\* visit_item_fn.
RECURSIVE visited_in(_)
visited_in(fns) ==
    IF fns = <<>> THEN <<>>
    ELSE <<Head(fns)>> \o visited_in(Head(fns).inner) \o visited_in(Tail(fns))

RECURSIVE bodies_of(_)
bodies_of(methods) ==
    IF methods = <<>> THEN <<>>
    ELSE visited_in(Head(methods).inner) \o bodies_of(Tail(methods))

RECURSIVE visit_file(_)
visit_file(items) ==
    IF items = <<>> THEN <<>>
    ELSE (CASE Head(items).kind = "fn" -> visited_in(<<Head(items).func>>)
            [] Head(items).kind = "mod" -> visited_in(Head(items).members)
            [] Head(items).kind = "impl" -> bodies_of(Head(items).members)
            [] OTHER -> <<>>)
         \o visit_file(Tail(items))

\* A visit that counts a function with a body as instrumentable whether or not
\* it has the marker.
visit_item_fn_unmarked(stats, node) ==
    LET has_trace_attr == \E i \in DOMAIN node.attrs : is_ident(node.attrs[i], "trace")
    IN  [stats EXCEPT
            !.total_functions = @ + 1,
            !.async_functions = IF node.is_async THEN @ + 1 ELSE @,
            !.sync_functions = IF node.is_async THEN @ ELSE @ + 1,
            !.public_functions = IF node.vis = "pub" THEN @ + 1 ELSE @,
            !.private_functions = IF node.vis = "pub" THEN @ ELSE @ + 1,
            !.instrumented_functions = IF has_trace_attr THEN @ + 1 ELSE @,
            !.instrumentable_functions = IF node.stmts > 0 THEN @ + 1 ELSE @]

\* FunctionVisitor::visit_item_fn, the counters
visit_item_fn(stats, node) ==
    LET has_trace_attr == \E i \in DOMAIN node.attrs : is_ident(node.attrs[i], "trace")
        is_test == \E i \in DOMAIN node.attrs :
                       is_ident(node.attrs[i], "test") \/ is_ident(node.attrs[i], "cfg")
    IN  [stats EXCEPT
            !.total_functions = @ + 1,
            !.async_functions = IF node.is_async THEN @ + 1 ELSE @,
            !.sync_functions = IF node.is_async THEN @ ELSE @ + 1,
            !.public_functions = IF node.vis = "pub" THEN @ + 1 ELSE @,
            !.private_functions = IF node.vis = "pub" THEN @ ELSE @ + 1,
            !.instrumented_functions = IF has_trace_attr THEN @ + 1 ELSE @,
            !.instrumentable_functions =
                IF ~has_trace_attr /\ node.stmts > 0 /\ ~is_test THEN @ + 1 ELSE @]

RECURSIVE visit_all(_, _)
visit_all(stats, nodes) ==
    IF nodes = <<>> THEN stats
    ELSE visit_all(visit_item_fn(stats, Head(nodes)), Tail(nodes))

\* The source tree: the directories, and the paths files can be at.
ScanDirs == {"src", "src/sub"}
ScanPaths == {"src/a.rs", "src/sub/b.rs", "src/notes.txt"}
MissingPath == "nowhere"

is_file(fs, path) == path \in DOMAIN fs /\ fs[path] # None
is_dir(fs, path) == path \in ScanDirs

\* path.extension()
extension(path) ==
    LET d == last_dot(path, Len(path))
    IN  IF d <= 1 THEN "" ELSE SubSeq(path, d + 1, Len(path))

\* content.lines().count(): what quote! wrote is one line, or nothing.
lines_count(content) ==
    IF "lines" \in DOMAIN content THEN content.lines
    ELSE IF content.tokens = <<>> THEN 0 ELSE 1

\* Analyzer::analyze_file: Ok with the new stats, or Err.
analyze_file(fs, file, stats, unreadable) ==
    IF file \in unreadable \/ ~is_file(fs, file)
    THEN Err("Failed to read file")
    ELSE LET content == unwrap(fs[file])
             counted == [stats EXCEPT !.total_lines = @ + lines_count(content),
                                      !.total_files = @ + 1]
             parsed == parse_file(content)
         IN  IF ~parsed.ok
             THEN Err("Failed to parse file")
             ELSE [ok |-> TRUE, stats |-> visit_all(counted, visit_file(parsed.syntax))]

\* Every file under dir, whatever its extension.
walk_unfiltered(fs, dir, order) ==
    SelectSeq(order, LAMBDA p : is_file(fs, p) /\ starts_with(p, dir \o "/"))

\* The files WalkDir yields under dir that pass the filter, in the order it
\* yields them.
walk(fs, dir, order) ==
    SelectSeq(order, LAMBDA p : is_file(fs, p) /\ starts_with(p, dir \o "/")
                                  /\ extension(p) = "rs")

\* The loop goes on to the next entry after an Err.
RECURSIVE analyze_entries_skipping(_, _, _, _)
analyze_entries_skipping(fs, entries, stats, unreadable) ==
    IF entries = <<>> THEN [ok |-> TRUE, stats |-> stats]
    ELSE LET r == analyze_file(fs, Head(entries), stats, unreadable)
         IN  analyze_entries_skipping(fs, Tail(entries),
                                      IF r.ok THEN r.stats ELSE stats, unreadable)

\* The loop of analyze_directory over the entries left: the first Err ends it.
RECURSIVE analyze_entries(_, _, _, _)
analyze_entries(fs, entries, stats, unreadable) ==
    IF entries = <<>> THEN [ok |-> TRUE, stats |-> stats]
    ELSE LET r == analyze_file(fs, Head(entries), stats, unreadable)
         IN  IF r.ok THEN analyze_entries(fs, Tail(entries), r.stats, unreadable)
             ELSE r

\* Analyzer::analyze_directory
analyze_directory(fs, dir, stats, unreadable, order) ==
    analyze_entries(fs, walk(fs, dir, order), stats, unreadable)

\* Analyzer::analyze_path
analyze_path(fs, path, unreadable, order) ==
    IF is_file(fs, path) THEN analyze_file(fs, path, AnalysisStats_default, unreadable)
    ELSE IF is_dir(fs, path)
    THEN analyze_directory(fs, path, AnalysisStats_default, unreadable, order)
    ELSE Err("Path not found")

\* The source files of the tree.
ScanTexts ==
    {ScanText(<<ItemFn(ScanFn("f", <<>>, 1, FALSE, "", <<>>)),
                ItemFn(ScanFn("g", <<>>, 2, TRUE, "pub", <<>>)),
                ItemFn(ScanFn("traced", << <<"trace">> >>, 1, FALSE, "pub", <<>>))>>, 9),
     ScanText(<<ItemFn(ScanFn("main", <<>>, 1, FALSE, "", <<>>)),
                ItemFn(ScanFn("empty", <<>>, 0, FALSE, "", <<>>)),
                ItemFn(ScanFn("check", << <<"test">> >>, 1, FALSE, "", <<>>)),
                ItemFn(ScanFn("bench_it", << <<"bench">> >>, 1, FALSE, "", <<>>))>>, 12),
     ScanText(<<ItemOther,
                ItemImpl(<<ScanFn("method", <<>>, 1, FALSE, "pub", <<>>)>>),
                ItemMod(<<ScanFn("helper", <<>>, 1, FALSE, "", <<>>)>>),
                ItemFn(ScanFn("outer", <<>>, 2, FALSE, "",
                              <<ScanFn("local", <<>>, 1, FALSE, "", <<>>)>>))>>, 14),
     InvalidScanText}

\* The orders WalkDir can yield the paths in.
WalkOrders ==
    {order \in [1..Cardinality(ScanPaths) -> ScanPaths] :
        \A p \in ScanPaths : \E i \in DOMAIN order : order[i] = p}

InitScan ==
    /\ GLOBAL_TRACER = 0
    /\ sinks = <<>>
    /\ files \in [ScanPaths -> {None} \cup {Some(text) : text \in ScanTexts}]
    /\ console = <<>>
    /\ clock = 0
    /\ ret = [op |-> "none", val |-> "Ok"]
    /\ span = NoSpan
    /\ call = NoCall
    /\ emitted = <<>>
    /\ pc = <<>>
    /\ loc = <<>>
    /\ hist = <<>>

\* flowctl analyze <path>
AnalyzePath(path, unreadable, order) ==
    /\ ret.op = "none"
    /\ ret' = [op |-> "analyze_path", path |-> path, unreadable |-> unreadable,
               val |-> analyze_path(files, path, unreadable, order)]
    /\ UNCHANGED <<GLOBAL_TRACER, sinks, files, console, clock, span, call, emitted,
                   pc, loc, hist>>

NextScan ==
    \E path \in ScanDirs \cup ScanPaths \cup {MissingPath}, unreadable \in SUBSET ScanPaths,
       order \in WalkOrders :
        AnalyzePath(path, unreadable, order)

SpecScan == InitScan /\ [][NextScan]_vars

(***************************************************************************)
(* SpecRescan: flowctl analyze and flowctl instrument on the same file     *)
(***************************************************************************)
RescanItems ==
    {ItemFn(ScanFn("f", <<>>, 1, FALSE, "", <<>>)),
     ItemFn(ScanFn("g", << <<"inline">> >>, 2, TRUE, "pub", <<>>)),
     ItemFn(ScanFn("traced", << <<"trace">> >>, 1, FALSE, "pub", <<>>)),
     ItemFn(ScanFn("q", << <<"flowtrace_agent", "trace">> >>, 1, FALSE, "", <<>>)),
     ItemFn(ScanFn("main", <<>>, 1, FALSE, "", <<>>)),
     ItemFn(ScanFn("outer", <<>>, 2, FALSE, "", <<ScanFn("local", <<>>, 1, FALSE, "", <<>>)>>)),
     ItemImpl(<<ScanFn("method", <<>>, 1, FALSE, "pub", <<>>)>>)}
RescanTexts ==
    {ScanText(items, 3 * Len(items) + 1) : items \in SeqUpTo(RescanItems, MaxItems)}

InitRescan ==
    /\ GLOBAL_TRACER = 0
    /\ sinks = <<>>
    /\ \E text \in RescanTexts :
          files = [p \in Disk |-> IF p = SourceFile THEN Some(text) ELSE None]
    /\ console = <<>>
    /\ clock = 0
    /\ ret = [op |-> "none", val |-> "Ok"]
    /\ span = NoSpan
    /\ call = NoCall
    /\ emitted = <<>>
    /\ pc = <<>>
    /\ loc = <<>>
    /\ hist = <<>>

\* flowctl analyze <file>
AnalyzeSourceFile ==
    /\ ret' = [op |-> "analyze_path", path |-> SourceFile, unreadable |-> {},
               val |-> analyze_path(files, SourceFile, {}, <<>>)]
    /\ UNCHANGED <<GLOBAL_TRACER, sinks, files, console, clock, span, call, emitted,
                   pc, loc, hist>>

NextRescan ==
    \/ AnalyzeSourceFile
    \/ \E create_backup \in BOOLEAN, dry_run \in BOOLEAN, io \in FsOutcomes :
            InstrumentFile(create_backup, dry_run, io)

SpecRescan == InitRescan /\ [][NextRescan]_vars

(***************************************************************************)
(* Claims about the threads (SpecRace, SpecLog)                            *)
(***************************************************************************)
\* C3: start_tracing, stop_tracing and log_event are atomic with respect to each
\* other: as long as no stop_tracing has run at most one start_tracing has
\* succeeded, and no log_event touches a Sink that a stop_tracing (or a second
\* start_tracing) has released.
C3_LifecycleAtomic ==
    /\ hist.stops = 0 => hist.startsOk <= 1
    /\ ~hist.usedReleased

LogFile == files[DefaultLogFile]

\* The calls of log_event that have returned.
RECURSIVE Returned(_)
Returned(n) == IF n = 0 THEN 0 ELSE loc[n].n + Returned(n - 1)

CompleteLines(json) ==
    {i \in DOMAIN LogFile :
        /\ i > 1
        /\ LogFile[i] = Chunk(json, "tail")
        /\ LogFile[i - 1] = Chunk(json, "head")}

\* C7: in the output target the bytes of two lines never interleave: the first
\* part of a line is followed by its own last part (or is the end of the file,
\* its writer holding the lock), a last part follows its own first part, and
\* every line is the serialization of one logged event.
C7_LinesNeverInterleave ==
    \A i \in DOMAIN LogFile :
        /\ LogFile[i].line \in {to_string(ev) : ev \in hist.logged}
        /\ LogFile[i].part = "tail" =>
              (i > 1 /\ LogFile[i - 1] = Chunk(LogFile[i].line, "head"))
        /\ LogFile[i].part = "head" =>
              IF i < Len(LogFile)
              THEN LogFile[i + 1] = Chunk(LogFile[i].line, "tail")
              ELSE \E t \in Threads :
                      pc[t] = "l_tail" /\ to_string(loc[t].ev) = LogFile[i].line

\* C7 witness: a thread is in the middle of its line while another waits for the lock,
\* after a line of the other thread.
C7_Witness ==
    \E t, u \in Threads :
        /\ t # u
        /\ pc[t] = "l_tail"
        /\ pc[u] = "l_lock"
        /\ Len(LogFile) = 3
        /\ LogFile[1].line["thread"] = ThreadName(u)
        /\ LogFile[3].line["thread"] = ThreadName(t)

\* C8: with the tracer Running and the writes succeeding no event is lost: every
\* log_event call that has returned has exactly one complete line in the output
\* target, the target holds as many complete lines as calls have returned, and
\* NThreads * OpsPerThread of them once every thread has made its calls.
C8_NoEventLost ==
    /\ Cardinality({i \in DOMAIN LogFile : LogFile[i].part = "tail"}) = Returned(NThreads)
    /\ \A ev \in hist.logged :
          \A t \in Threads :
              (ev.thread = ThreadName(t) /\ ev.timestamp < loc[t].n) =>
                  Cardinality(CompleteLines(to_string(ev))) = 1
    /\ (\A t \in Threads : loc[t].n = OpsPerThread) =>
          Len(LogFile) = 2 * NThreads * OpsPerThread

\* C8 witness: every thread has made all its calls and every line is there.
C8_Witness ==
    /\ \A t \in Threads : pc[t] = "idle" /\ loc[t].n = OpsPerThread
    /\ Cardinality(UNION {CompleteLines(to_string(ev)) : ev \in hist.logged})
          = NThreads * OpsPerThread
    /\ Cardinality(hist.logged) = NThreads * OpsPerThread

(***************************************************************************)
(* Claims about flowctl (SpecClassify, SpecRewrite)                        *)
(***************************************************************************)
\* The function carries the marker: an attribute of that name, under any path.
Carries(func, ident) == \E i \in DOMAIN func.attrs : ends_in(func.attrs[i], ident)

\* C17: should_instrument is false for a function that carries the
\* instrumentation marker, or a test, benchmark or conditional-build marker, or
\* has no statement, or is named main or init, or has a name beginning with
\* test_; for every other function it is true.
C17_Eligibility ==
    ret.op = "should_instrument" =>
        ret.val = ~(\/ Carries(ret.func, "trace")
                    \/ Carries(ret.func, "test")
                    \/ Carries(ret.func, "bench")
                    \/ Carries(ret.func, "cfg")
                    \/ ret.func.stmts = 0
                    \/ ret.func.name \in {"main", "init"}
                    \/ starts_with(ret.func.name, "test_"))

\* A step is a call of instrument_file without --dry-run, or with it.
Rewrites(dry_run) ==
    clock' = clock + 1 /\ ret'.op = "instrument_file" /\ ret'.dry_run = dry_run

BackupFile == with_extension(SourceFile, "rs.bak")

\* C18: rewrite is idempotent: a rewrite that follows a completed rewrite of the
\* file (neither a dry run) leaves the file and the backup as they are and, unless
\* it cannot read the file, returns count 0, no name and no backup path.
C18_RewriteIdempotent ==
    [][(/\ ret.op = "instrument_file"
        /\ ~ret.dry_run
        /\ ret.val.ok
        /\ Rewrites(FALSE)) =>
            /\ files' = files
            /\ ret'.val.ok =>
                  /\ ret'.val.count = 0
                  /\ ret'.val.functions = <<>>
                  /\ ret'.val.backup_path = None]_vars

\* C18 witness: the second rewrite has returned count 0; the first had marked a
\* function, which the backup has without the marker.
C18_Witness ==
    /\ clock = 2
    /\ ret.op = "instrument_file" /\ ~ret.dry_run /\ ret.create_backup
    /\ ret.val.ok /\ ret.val.count = 0 /\ ret.val.backup_path = None
    /\ files[BackupFile] # None
    /\ LET now == unwrap(files[SourceFile]).tokens
           before == unwrap(files[BackupFile]).tokens
       IN  \E i \in DOMAIN now :
              /\ now[i].kind = "fn"
              /\ has_trace_attribute(now[i].func)
              /\ ~has_trace_attribute(before[i].func)

\* C19: a dry run returns the count and the names a run without --dry-run
\* returns on the same file, leaves the file system as it is and returns no
\* backup path, with --backup too.
C19_DryRunChangesNothing ==
    [][Rewrites(TRUE) =>
        /\ files' = files
        /\ ret'.val.ok =>
              /\ ret'.val.backup_path = None
              /\ \A create_backup \in BOOLEAN, io \in FsOutcomes :
                    LET wet == instrument_file(files, create_backup, SourceFile, FALSE, io).val
                    IN  wet.ok => /\ wet.count = ret'.val.count
                                  /\ wet.functions = ret'.val.functions]_vars

\* C19 witness: a dry run with --backup on a file with two eligible functions and
\* comments: both names, the file as it was, no backup.
C19_Witness ==
    /\ ret.op = "instrument_file" /\ ret.dry_run /\ ret.create_backup
    /\ ret.val.ok /\ ret.val.count = 2 /\ ret.val.functions = <<"f", "g">>
    /\ ret.val.backup_path = None
    /\ files[BackupFile] = None
    /\ unwrap(files[SourceFile]).trivia
    /\ \A i \in DOMAIN unwrap(files[SourceFile]).tokens :
          ~has_trace_attribute(unwrap(files[SourceFile]).tokens[i].func)

\* The file can be read and parsed and has a function instrument_file selects.
HasSelection ==
    /\ files[SourceFile] # None
    /\ parse_file(unwrap(files[SourceFile])).ok
    /\ instrument_items(parse_file(unwrap(files[SourceFile])).syntax, FALSE).functions # <<>>

\* C30: in a call of instrument_file with --backup and without --dry-run on a
\* file with a selection: when the copy fails the call returns the error of the
\* copy and the file is as it was; whenever the call has changed the file, the
\* backup holds what the file held before the call; and a call that returns Ok
\* returns the backup path.
C30_BackupBeforeOverwrite ==
    /\ [](HasSelection =>
            LET r == instrument_file(files, TRUE, SourceFile, FALSE, "copy_fails")
            IN  /\ r.val = Err("Failed to create backup")
                /\ r.fs[SourceFile] = files[SourceFile])
    /\ [][(Rewrites(FALSE) /\ ret'.create_backup /\ HasSelection) =>
            /\ (~ret'.val.ok /\ ret'.val.error = "Failed to create backup") =>
                  files'[SourceFile] = files[SourceFile]
            /\ files'[SourceFile] # files[SourceFile] => files'[BackupFile] = files[SourceFile]
            /\ ret'.val.ok =>
                  /\ files'[BackupFile] = files[SourceFile]
                  /\ files'[SourceFile] # files[SourceFile]
                  /\ ret'.val.backup_path = Some(BackupFile)]_vars

\* C30 witness: the write failed after it had truncated the file, and the backup
\* holds the text with the function that was selected.
C30_Witness ==
    /\ ret.op = "instrument_file" /\ ~ret.dry_run /\ ret.create_backup
    /\ ~ret.val.ok /\ ret.val.error = "Failed to write file"
    /\ files[SourceFile] = Some(Text(<<>>, FALSE))
    /\ files[BackupFile] # None
    /\ \E i \in DOMAIN unwrap(files[BackupFile]).tokens :
          LET it == unwrap(files[BackupFile]).tokens[i]
          IN  it.kind = "fn" /\ should_instrument(it.func)

\* The file can be read and parsed and instrument_file selects none of its
\* functions.
EmptySelection ==
    /\ files[SourceFile] # None
    /\ parse_file(unwrap(files[SourceFile])).ok
    /\ instrument_items(parse_file(unwrap(files[SourceFile])).syntax, FALSE).functions = <<>>

\* C31: a call of instrument_file without --dry-run on a file of which it
\* selects no function leaves the file system as it is, with --backup too: no
\* write, no backup; the call returns count 0, no name and no backup path unless
\* the file cannot be read.
C31_EmptySelectionWritesNothing ==
    [][(Rewrites(FALSE) /\ EmptySelection) =>
            /\ files' = files
            /\ \/ ~ret'.val.ok /\ ret'.val.error = "Failed to read file"
               \/ /\ ret'.val.ok
                  /\ ret'.val.count = 0
                  /\ ret'.val.functions = <<>>
                  /\ ret'.val.backup_path = None]_vars

\* C31 witness: a first call without --dry-run and with --backup on a file
\* with comments whose functions are all ineligible has returned count 0; there
\* is no backup and the file has its comments.
C31_Witness ==
    /\ clock = 1
    /\ ret.op = "instrument_file" /\ ~ret.dry_run /\ ret.create_backup
    /\ ret.val.ok /\ ret.val.count = 0 /\ ret.val.backup_path = None
    /\ files[BackupFile] = None
    /\ unwrap(files[SourceFile]).trivia
    /\ Len(unwrap(files[SourceFile]).tokens) = 2
    /\ \A i \in DOMAIN unwrap(files[SourceFile]).tokens :
          unwrap(files[SourceFile]).tokens[i].kind = "fn"

\* The instrumentation markers a function carries, under whatever path.
Markers(func) == Cardinality({i \in DOMAIN func.attrs : ends_in(func.attrs[i], "trace")})

\* C32: a call of instrument_file without --dry-run that returns Ok leaves the
\* items of the file in their number and order; each function it selected has
\* its attributes as before followed by one #[trace], and carries exactly one
\* instrumentation marker; every other item is as it was.
C32_OneMarkerEach ==
    [][(Rewrites(FALSE) /\ ret'.val.ok) =>
            LET before == unwrap(files[SourceFile]).tokens
                after == unwrap(files'[SourceFile]).tokens
            IN  /\ DOMAIN after = DOMAIN before
                /\ \A i \in DOMAIN before :
                      IF before[i].kind = "fn" /\ should_instrument(before[i].func)
                      THEN /\ after[i] = [before[i] EXCEPT
                                            !.func.attrs = Append(@, <<"trace">>)]
                           /\ Markers(after[i].func) = 1
                      ELSE after[i] = before[i]]_vars

\* The functions of a file in the order they are declared, those of impl blocks
\* and modules too.
RECURSIVE all_fns(_)
all_fns(items) ==
    IF items = <<>> THEN <<>>
    ELSE (IF Head(items).kind = "fn" THEN <<Head(items).func>> ELSE Head(items).members)
            \o all_fns(Tail(items))

EligibleNames(items) ==
    LET picked == SelectSeq(all_fns(items), should_instrument)
    IN  [i \in DOMAIN picked |-> picked[i].name]

\* C20: rewrite selects, in declaration order, every function of the file that
\* should_instrument accepts, those of impl blocks and modules too, and no other.
C20_SelectsNested ==
    [][(clock' = clock + 1 /\ ret'.op = "instrument_file" /\ ret'.val.ok) =>
          ret'.val.functions = EligibleNames(unwrap(files[SourceFile]).tokens)]_vars

(***************************************************************************)
(* Claims about flowctl analyze (SpecScan)                                 *)
(***************************************************************************)
\* The files a scan of path reads.
ScannedFiles(path) ==
    IF is_file(files, path) THEN <<path>>
    ELSE IF is_dir(files, path)
    THEN walk(files, path, CHOOSE order \in WalkOrders : TRUE)
    ELSE <<>>

TokensOf(path) == unwrap(files[path]).tokens

\* C21: the scanner's instrumentable count is the number of the functions it
\* scanned that should_instrument, the predicate of the rewriter, accepts.
C21_SamePredicate ==
    (ret.op = "analyze_path" /\ ret.val.ok) =>
        LET scanned == ScannedFiles(ret.path)
            eligible(p) == Len(SelectSeq(visit_file(TokensOf(p)), should_instrument))
            Sum[i \in 0..Len(scanned)] ==
                IF i = 0 THEN 0 ELSE eligible(scanned[i]) + Sum[i - 1]
        IN  ret.val.stats.instrumentable_functions = Sum[Len(scanned)]

\* The functions a file declares: its own, those of its modules, the methods of
\* its impl blocks, and the functions declared inside their bodies.
RECURSIVE declared_fns(_)
declared_fns(items) ==
    IF items = <<>> THEN <<>>
    ELSE (CASE Head(items).kind = "fn" -> visited_in(<<Head(items).func>>)
            [] Head(items).kind \in {"mod", "impl"} -> visited_in(Head(items).members)
            [] OTHER -> <<>>)
         \o declared_fns(Tail(items))

\* C22: total_functions counts every function the scanned files declare, the
\* methods of impl blocks and the functions of modules and of function bodies
\* included.
C22_CountsMembers ==
    (ret.op = "analyze_path" /\ ret.val.ok) =>
        LET scanned == ScannedFiles(ret.path)
            Sum[i \in 0..Len(scanned)] ==
                IF i = 0 THEN 0 ELSE Len(declared_fns(TokensOf(scanned[i]))) + Sum[i - 1]
        IN  ret.val.stats.total_functions = Sum[Len(scanned)]

\* C23: when a file the scan visits cannot be read or parsed the scan returns an
\* error and no stats; the scan of a path that is neither a file nor a directory
\* returns the path-not-found error.
C23_NoPartialStats ==
    ret.op = "analyze_path" =>
        LET scanned == ScannedFiles(ret.path)
            bad(p) == p \in ret.unreadable \/ ~unwrap(files[p]).valid
        IN  /\ (\E i \in DOMAIN scanned : bad(scanned[i])) =>
                  /\ ~ret.val.ok
                  /\ DOMAIN ret.val = {"ok", "error"}
                  /\ ret.val.error \in {"Failed to read file", "Failed to parse file"}
            /\ (~is_file(files, ret.path) /\ ~is_dir(files, ret.path)) =>
                  ret.val = Err("Path not found")

\* The stats of a scan of the source file as it is.
StatsOf(fs) == analyze_path(fs, SourceFile, {}, <<>>)

\* C33: when a call of instrument_file without --dry-run has returned Ok with
\* count c, the scan of the file after the call has the total_functions of the
\* scan before it, c more instrumented_functions and c fewer
\* instrumentable_functions.
C33_RewriteMovesCount ==
    [][(Rewrites(FALSE) /\ ret'.val.ok) =>
            LET before == StatsOf(files)
                after == StatsOf(files')
                c == ret'.val.count
            IN  /\ before.ok /\ after.ok
                /\ after.stats.total_functions = before.stats.total_functions
                /\ after.stats.instrumented_functions =
                       before.stats.instrumented_functions + c
                /\ after.stats.instrumentable_functions =
                       before.stats.instrumentable_functions - c]_vars

\* C33 witness: the scan that follows a rewrite of two functions counts both
\* as instrumented and none as instrumentable.
C33_Witness ==
    /\ ret.op = "analyze_path" /\ ret.val.ok
    /\ clock = 1
    /\ files[BackupFile] # None
    /\ StatsOf([p \in Disk |-> IF p = SourceFile THEN files[BackupFile] ELSE None]).stats
            .instrumentable_functions = 2
    /\ ret.val.stats.total_functions = 2
    /\ ret.val.stats.instrumented_functions = 2
    /\ ret.val.stats.instrumentable_functions = 0

\* C34: in the stats of every scan that returns Ok, total_functions is
\* async_functions + sync_functions and public_functions + private_functions,
\* and instrumented_functions + instrumentable_functions is at most
\* total_functions.
C34_CountersAgree ==
    (ret.op = "analyze_path" /\ ret.val.ok) =>
        LET st == ret.val.stats
        IN  /\ st.total_functions = st.async_functions + st.sync_functions
            /\ st.total_functions = st.public_functions + st.private_functions
            /\ st.instrumented_functions + st.instrumentable_functions <= st.total_functions

\* C34 witness: the scan of a directory has counted functions of every sort,
\* some of them neither instrumented nor instrumentable.
C34_Witness ==
    /\ ret.op = "analyze_path" /\ ret.val.ok /\ ret.path = "src"
    /\ ret.val.stats.total_files = 2
    /\ ret.val.stats.async_functions > 0 /\ ret.val.stats.sync_functions > 0
    /\ ret.val.stats.public_functions > 0 /\ ret.val.stats.private_functions > 0
    /\ ret.val.stats.instrumented_functions > 0
    /\ ret.val.stats.instrumentable_functions > 0
    /\ ret.val.stats.instrumented_functions + ret.val.stats.instrumentable_functions
            < ret.val.stats.total_functions

\* The source files under a directory: the files there whose name ends in .rs.
SourceFilesUnder(dir) ==
    {p \in ScanPaths :
        /\ is_file(files, p)
        /\ starts_with(p, dir \o "/")
        /\ Len(p) > 3 /\ SubSeq(p, Len(p) - 2, Len(p)) = ".rs"}

Counters == DOMAIN AnalysisStats_default

\* The scan of one file on its own.
AloneScan(p) == analyze_path(files, p, ret.unreadable, <<>>)

RECURSIVE SumOver(_, _)
SumOver(paths, counter) ==
    IF paths = {} THEN 0
    ELSE LET p == CHOOSE q \in paths : TRUE
         IN  AloneScan(p).stats[counter] + SumOver(paths \ {p}, counter)

\* C35: the scan of a directory returns Ok exactly when the scan of each of its
\* source files on its own does, and then each of its counters is the sum of
\* theirs; the files without the .rs extension count for nothing.
C35_DirectoryIsSum ==
    (ret.op = "analyze_path" /\ is_dir(files, ret.path)) =>
        /\ ret.val.ok <=> \A p \in SourceFilesUnder(ret.path) : AloneScan(p).ok
        /\ ret.val.ok =>
              \A counter \in Counters :
                  ret.val.stats[counter] = SumOver(SourceFilesUnder(ret.path), counter)

\* C35 witness: the scan of src has added up two source files, next to a file
\* notes.txt that holds functions too.
C35_Witness ==
    /\ ret.op = "analyze_path" /\ ret.val.ok /\ ret.path = "src"
    /\ Cardinality(SourceFilesUnder("src")) = 2
    /\ \A p \in SourceFilesUnder("src") : AloneScan(p).stats.total_functions > 0
    /\ is_file(files, "src/notes.txt")
    /\ unwrap(files["src/notes.txt"]).valid
    /\ ret.val.stats.total_files = 2

\* C23 witness: the scan of a directory with a file that parses and a file that
\* does not has returned the error.
C23_Witness ==
    /\ ret.op = "analyze_path" /\ ret.path = "src" /\ ret.unreadable = {}
    /\ files["src/a.rs"] # None /\ unwrap(files["src/a.rs"]).valid
    /\ Len(visit_file(TokensOf("src/a.rs"))) > 0
    /\ files["src/sub/b.rs"] = Some(InvalidScanText)
    /\ ret.val = Err("Failed to parse file")

(***************************************************************************)
(* Claims about the events                                                 *)
(***************************************************************************)
\* The events handed to log_event, and the lines written to the file and the console.
EmittedEvents == {emitted[i].ev : i \in DOMAIN emitted}
WrittenLines ==
    {files[DefaultLogFile][i].line : i \in DOMAIN files[DefaultLogFile]}
        \cup {console[i] : i \in DOMAIN console}

Absent(ev, fields) == \A f \in fields : ev[f] = None

\* C14: every emitted event populates only the payload of its kind, in the event
\* and in its line: an EXCEPTION has exception and neither args nor result; an
\* ENTER has no result, no exception and no duration; an EXIT has neither args nor
\* exception.
C14_PayloadMatchesKind ==
    /\ \A ev \in EmittedEvents :
          /\ ev.event_type = "EXCEPTION" =>
                is_some(ev.exception) /\ Absent(ev, {"args", "result"})
          /\ ev.event_type = "ENTER" =>
                Absent(ev, {"result", "exception", "duration_micros", "duration_millis"})
          /\ ev.event_type = "EXIT" => Absent(ev, {"args", "exception"})
    /\ \A line \in WrittenLines :
          /\ line["event"] = "EXCEPTION" =>
                "exception" \in DOMAIN line /\ DOMAIN line \cap {"args", "result"} = {}
          /\ line["event"] = "ENTER" =>
                DOMAIN line \cap {"result", "exception", "durationMicros", "durationMillis"} = {}
          /\ line["event"] = "EXIT" => DOMAIN line \cap {"args", "exception"} = {}

\* C14 witness: a call with an argument has ended with an EXCEPTION event, and both
\* its events are in the file.
C14_Witness ==
    /\ \E ev \in EmittedEvents : ev.event_type = "ENTER" /\ is_some(ev.args)
    /\ \E ev \in EmittedEvents : ev.event_type = "EXCEPTION"
    /\ \E line \in WrittenLines : line["event"] = "EXCEPTION"
    /\ \E line \in WrittenLines : line["event"] = "ENTER" /\ "args" \in DOMAIN line

Populated(ev) == {f \in {"args", "result", "exception"} : is_some(ev[f])}
PayloadOf(kind) ==
    CASE kind = "ENTER" -> "args" [] kind = "EXIT" -> "result" [] kind = "EXCEPTION" -> "exception"

\* C15: in every emitted event exactly one of args, result, exception is
\* populated, the one of the event's kind.
C15_ExactlyOnePayload ==
    \A ev \in EmittedEvents : Populated(ev) = {PayloadOf(ev.event_type)}

\* C16: in every EXIT or EXCEPTION event that carries a duration, and in its line,
\* durationMillis is durationMicros divided by 1000, the remainder dropped.
C16_MillisFromMicros ==
    /\ \A ev \in EmittedEvents :
          (ev.event_type \in {"EXIT", "EXCEPTION"} /\ is_some(ev.duration_micros)) =>
              /\ is_some(ev.duration_millis)
              /\ unwrap(ev.duration_millis) * 1000 <= unwrap(ev.duration_micros)
              /\ unwrap(ev.duration_micros) < (unwrap(ev.duration_millis) + 1) * 1000
    /\ \A line \in WrittenLines :
          "durationMicros" \in DOMAIN line =>
              /\ "durationMillis" \in DOMAIN line
              /\ line["durationMillis"] * 1000 <= line["durationMicros"]
              /\ line["durationMicros"] < (line["durationMillis"] + 1) * 1000

\* C16 witness: an EXIT line whose microseconds are not a whole number of
\* milliseconds, and an EXCEPTION line with less than one millisecond.
C16_Witness ==
    /\ \E line \in WrittenLines :
          /\ line["event"] = "EXIT"
          /\ "durationMicros" \in DOMAIN line
          /\ line["durationMicros"] = 2001 /\ line["durationMillis"] = 2
    /\ \E line \in WrittenLines :
          /\ line["event"] = "EXCEPTION"
          /\ "durationMicros" \in DOMAIN line
          /\ line["durationMicros"] = 999 /\ line["durationMillis"] = 0

(***************************************************************************)
(* Claims about Span (SpecSpan)                                            *)
(***************************************************************************)
TerminalKinds == {"EXIT", "EXCEPTION"}

\* The terminal events the span handed to log_event.
Terminals(id) ==
    {i \in DOMAIN emitted : emitted[i].id = id /\ emitted[i].ev.event_type \in TerminalKinds}

\* The terminal lines in the output target.
TerminalLines(path) ==
    {i \in DOMAIN files[path] :
        files[path][i].part = "head" /\ files[path][i].line["event"] \in TerminalKinds}

\* C1: after end(), with the Span gone out of scope inside end, the span has
\* produced exactly one terminal event, and the output target of the Running
\* tracer holds at most one terminal line.
C1_EndEmitsOnce ==
    (span.state = "ended" /\ Running) =>
        /\ Cardinality(Terminals(span.id)) = 1
        /\ Cardinality(TerminalLines(DefaultLogFile)) <= 1

\* C2: a Span dropped without end() while nothing is unwinding has produced
\* exactly one terminal event: an EXCEPTION with the message when set_error was
\* called, otherwise an EXIT with the snapshot of the tags.
C2_DropReflectsState ==
    (span.state = "dropped" /\ ~span.unwinding /\ Running) =>
        /\ Cardinality(Terminals(span.id)) = 1
        /\ \A i \in Terminals(span.id) :
              IF is_some(span.error)
              THEN /\ emitted[i].ev.event_type = "EXCEPTION"
                   /\ emitted[i].ev.exception = span.error
              ELSE /\ emitted[i].ev.event_type = "EXIT"
                   /\ \E order \in Orders(DOMAIN span.tags) :
                         emitted[i].ev.result = tags_result(span.tags, order)

\* C24: after end() the span has produced exactly one terminal event: an
\* EXCEPTION with the last message given to set_error when there was one,
\* otherwise an EXIT whose result is the snapshot of the tags (nothing when there
\* are no tags).
C24_EndEmitsExceptionOrExit ==
    (span.state = "ended" /\ Running) =>
        /\ Cardinality(Terminals(span.id)) = 1
        /\ \A i \in Terminals(span.id) :
              IF is_some(span.error)
              THEN /\ emitted[i].ev.event_type = "EXCEPTION"
                   /\ emitted[i].ev.exception = span.error
              ELSE /\ emitted[i].ev.event_type = "EXIT"
                   /\ \E order \in Orders(DOMAIN span.tags) :
                         emitted[i].ev.result = tags_result(span.tags, order)

\* The lines of a kind in the log file, and on stdout.
LinesOf(kinds) ==
    {i \in DOMAIN files[DefaultLogFile] :
        files[DefaultLogFile][i].part = "head" /\ files[DefaultLogFile][i].line["event"] \in kinds}
PrintedOf(kinds) == {i \in DOMAIN console : console[i]["event"] \in kinds}

\* C25: a Span dropped while a panic unwinds through its scope has produced no
\* terminal event and written no terminal line, and dropping a live Span during
\* an unwinding logs nothing, changes nothing and does not panic.
C25_SuppressedWhileUnwinding ==
    /\ (span.state = "dropped" /\ span.unwinding) =>
            /\ Terminals(span.id) = {}
            /\ TerminalLines(DefaultLogFile) = {}
            /\ \A i \in DOMAIN console : console[i]["event"] \notin TerminalKinds
    /\ span.state = "live" =>
            \A elapsed \in Elapsed, order \in Orders(DOMAIN span.tags), io \in TracedIo :
                LET d == Span_drop(World, span, clock, TRUE, elapsed, order, io)
                IN  d.events = <<>> /\ ~d.panicked /\ d.w = World

\* A Span with tags, created and dropped under a Running tracer while a panic
\* unwinds.
C25_Witness ==
    /\ span.state = "dropped" /\ span.unwinding /\ Running
    /\ DOMAIN span.tags = TagKeys
    /\ LinesOf({"ENTER"}) # {}

\* Whether log_event reaches the logger: a tracer is installed and its lock is
\* not poisoned.
Logging == Running /\ ~sinks[GLOBAL_TRACER].poisoned

\* C28: Span::new hands the ENTER event to log_event at once (and the logger
\* reached writes its line before new returns); the ENTER event of the span
\* comes before its terminal events, among the events and in the output; and
\* set_tag, set_error and duration_micros emit and write nothing.
C28_EnterFirst ==
    /\ [](/\ \A i \in Terminals(span.id) :
                \E j \in 1..(i - 1) :
                    emitted[j].id = span.id /\ emitted[j].ev.event_type = "ENTER"
          /\ \A i \in LinesOf(TerminalKinds), j \in LinesOf({"ENTER"}) : j < i
          /\ \A i \in PrintedOf(TerminalKinds), j \in PrintedOf({"ENTER"}) : j < i)
    /\ [][/\ ret'.op = "Span::new" =>
                /\ Len(emitted') = Len(emitted) + 1
                /\ emitted'[Len(emitted')].id = span'.id
                /\ emitted'[Len(emitted')].ev.event_type = "ENTER"
                /\ Logging =>
                      /\ Len(files'[DefaultLogFile]) = Len(files[DefaultLogFile]) + 2
                      /\ LinesOf({"ENTER"})' =
                            LinesOf({"ENTER"}) \cup {Len(files[DefaultLogFile]) + 1}
          /\ ret'.op \in {"set_tag", "set_error", "duration_micros"} =>
                /\ emitted' = emitted
                /\ files' = files
                /\ console' = console]_vars

\* A span that was tagged, marked and ended under a Running tracer, with its
\* ENTER line and a terminal line in the log file.
C28_Witness ==
    /\ span.state = "ended" /\ Running
    /\ DOMAIN span.tags # {} /\ is_some(span.error)
    /\ LinesOf({"ENTER"}) # {} /\ LinesOf(TerminalKinds) # {}

\* C29: set_tag(key, value) leaves the tags with key at value, with every other
\* key as it was and no key added or lost, and leaves the error alone; set_error
\* leaves the tags alone.
C29_LastWriteWins ==
    [][/\ ret'.op = "set_tag" =>
            /\ DOMAIN span'.tags = DOMAIN span.tags \cup {ret'.key}
            /\ span'.tags[ret'.key] = ret'.value
            /\ \A k \in DOMAIN span.tags \ {ret'.key} : span'.tags[k] = span.tags[k]
            /\ span'.error = span.error
       /\ ret'.op = "set_error" => span'.tags = span.tags]_vars

\* set_tag has just written one of the two keys of a span whose error is set.
C29_Witness ==
    /\ span.state = "live" /\ ret.op = "set_tag"
    /\ ret.key = "user_id" /\ ret.value = "2"
    /\ span.tags = [k \in TagKeys |-> IF k = "user_id" THEN "2" ELSE "1"]
    /\ is_some(span.error)

(***************************************************************************)
(* Claims about #[trace] (SpecCall)                                        *)
(***************************************************************************)
\* The events of a kind the call handed to log_event.
CallEvents(kind) ==
    {i \in DOMAIN emitted : emitted[i].id = 1 /\ emitted[i].ev.event_type = kind}

\* C10: when the body of an instrumented function, synchronous or asynchronous,
\* has panicked, the call has emitted exactly one EXCEPTION event, with the
\* message taken from the panic or the fixed string, and the caller has got the
\* panic of the body. (Stated for the calls in which the tracer's own print! did
\* not panic.)
C10_PanicLoggedThenReraised ==
    (/\ call.state = "done"
     /\ call.body.kind = "panic"
     /\ call.outcome # Body("panic", PrintPanic)) =>
        /\ call.outcome = call.body
        /\ Cardinality(CallEvents("EXCEPTION")) = 1
        /\ \A i \in CallEvents("EXCEPTION") :
              emitted[i].ev.exception = Some(error_msg(call.body.val))

\* C11: a call of an instrumented function with a fallible return type whose
\* body returned the failure branch has emitted exactly one ENTER and exactly one
\* EXCEPTION event and no EXIT event; one whose body returned the success branch
\* has emitted exactly one ENTER and one EXIT and no EXCEPTION.
C11_FallibleOutcome ==
    (call.state = "done" /\ call.fn.output \in Fallible) =>
        /\ call.body.kind = "return_err" =>
              /\ Cardinality(CallEvents("ENTER")) = 1
              /\ Cardinality(CallEvents("EXCEPTION")) = 1
              /\ Cardinality(CallEvents("EXIT")) = 0
        /\ call.body.kind = "return_ok" =>
              /\ Cardinality(CallEvents("ENTER")) = 1
              /\ Cardinality(CallEvents("EXIT")) = 1
              /\ Cardinality(CallEvents("EXCEPTION")) = 0

\* C12: the interceptor is transparent: whatever the function, its arguments and
\* the state of the tracer, once the call is over the caller has got what the
\* original body produced: its value, its failure value or its panic.
C12_Transparent ==
    (call.state = "done" /\ call.body.kind # "none") => call.outcome = call.body

\* C13: in every ENTER event of an instrumented call the snapshot of each
\* argument has at most max_arg_length characters (every Config here has the
\* default, 1000).
C13_ArgsTruncated ==
    \A i \in CallEvents("ENTER") :
        is_some(emitted[i].ev.args) =>
            \A j \in DOMAIN unwrap(emitted[i].ev.args) :
                Len(unwrap(emitted[i].ev.args)[j][2]) <= DefaultMaxArgLength

\* The fixed result of a function that returns nothing.
NoValueMarker == "()"

\* C26: a call of an instrumented function without a Result type whose body
\* returned has emitted exactly one EXIT event and no EXCEPTION event; the
\* result of the EXIT is "()" when the function returns nothing and the Debug
\* text of the value when it returns one; the log file holds at most that one
\* EXIT line and no EXCEPTION line.
C26_PlainCompletion ==
    (/\ call.state = "done"
     /\ call.body.kind = "return"
     /\ call.fn.output \notin Fallible) =>
        /\ CallEvents("EXCEPTION") = {}
        /\ Cardinality(CallEvents("EXIT")) = 1
        /\ \A i \in CallEvents("EXIT") :
              emitted[i].ev.result =
                  IF has_return(call.fn) THEN Some(fmt_debug(call.body.val))
                  ELSE Some(NoValueMarker)
        /\ LinesOf({"EXCEPTION"}) = {}
        /\ \A i \in LinesOf({"EXIT"}) :
              /\ LinesOf({"EXIT"}) = {i}
              /\ files[DefaultLogFile][i].line["result"] =
                     IF has_return(call.fn) THEN fmt_debug(call.body.val) ELSE NoValueMarker

\* A synchronous function that returns nothing has returned under a Running
\* tracer, and its EXIT line is in the log file.
C26_Witness ==
    /\ call.state = "done" /\ call.body.kind = "return"
    /\ ~call.fn.is_async /\ ~has_return(call.fn)
    /\ Running /\ LinesOf({"EXIT"}) # {}

IsPrefix(s, t) == Len(s) <= Len(t) /\ SubSeq(t, 1, Len(s)) = s

\* What a step has added at the end of the log file.
Appended == SubSeq(files'[DefaultLogFile], Len(files[DefaultLogFile]) + 1,
                   Len(files'[DefaultLogFile]))

TracerUnchanged == UNCHANGED <<GLOBAL_TRACER, sinks, files, console>>

\* C4: a start_tracing on a Running tracer returns AlreadyStarted and changes nothing:
\* GLOBAL_TRACER still names the Sink of the first start, which is as it was, and
\* nothing is written.
C4_SecondStartRejected ==
    [][\A config \in Config :
         (Running /\ StartTracing(config)) =>
             /\ ret'.val = "AlreadyStarted"
             /\ Running'
             /\ TracerUnchanged]_vars

\* C4 witness: a start came back AlreadyStarted and the first Sink is the active one.
C4_Witness ==
    /\ ret = [op |-> "start_tracing", val |-> "AlreadyStarted"]
    /\ GLOBAL_TRACER = 1
    /\ ~sinks[1].dropped

\* C5 as stated: stop_tracing leaves the tracer Uninitialized with the Sink released,
\* does nothing when it is Uninitialized already, and the start_tracing that follows
\* a stop succeeds and leaves the tracer Running.
C5_StopThenStartSucceeds ==
    [][/\ (Running /\ StopTracing) =>
            (Uninitialized' /\ sinks'[GLOBAL_TRACER].dropped)
       /\ (Uninitialized /\ StopTracing) => TracerUnchanged
       /\ \A config \in Config :
            (ret.op = "stop_tracing" /\ StartTracing(config)) =>
                (ret'.val = "Ok" /\ Running')]_vars

\* C5 amended: as above, but the start_tracing that follows a stop succeeds when
\* the Sink can be built (the file opens, or no file is configured); it never
\* returns AlreadyStarted, and when the open fails the tracer stays Uninitialized.
C5_StopThenStart ==
    [][/\ (Running /\ StopTracing) =>
            (Uninitialized' /\ sinks'[GLOBAL_TRACER].dropped)
       /\ (Uninitialized /\ StopTracing) => TracerUnchanged
       /\ \A config \in Config :
            (ret.op = "stop_tracing" /\ StartTracing(config)) =>
                /\ ret'.val # "AlreadyStarted"
                /\ (config.log_file = "" \/ config.log_file \in Openable)
                      => (ret'.val = "Ok" /\ Running' /\ ~sinks'[GLOBAL_TRACER'].dropped)
                /\ ~(config.log_file = "" \/ config.log_file \in Openable)
                      => (ret'.val = "IoError" /\ Uninitialized')]_vars

\* C5 witness: a second Sink is active, so a start succeeded after a stop.
C5_Witness ==
    /\ ret = [op |-> "start_tracing", val |-> "Ok"]
    /\ GLOBAL_TRACER = 2
    /\ sinks[1].dropped

\* C6: log_event hands the event to the active Sink exactly when the tracer is
\* Running (the file and the console are what Logger::log leaves them), and when
\* it is Uninitialized nothing is written, nothing is raised, nothing changes.
C6_ForwardsIffRunning ==
    [][\A ev \in HostEvents(clock), io \in IoOutcomes :
         LogEvent(ev, io) =>
             IF Running
             THEN LET forwarded == Logger_log(World, GLOBAL_TRACER, ev, io).w
                  IN  files' = forwarded.files /\ console' = forwarded.console
             ELSE TracerUnchanged /\ ret'.val = "Ok"]_vars

\* C9: a failure inside Logger::log never reaches the caller of log_event, and
\* leaves the tracer able to log: no call comes back with a panic and no Sink's
\* lock is poisoned.
C9_FailuresSwallowed ==
    /\ ret.val # "panic"
    /\ \A s \in 1..Len(sinks) : ~sinks[s].poisoned

\* C37: a start_tracing that fails because the log file cannot be opened leaves
\* the tracer Uninitialized and everything as it was; and while the tracer is
\* Uninitialized a log_event changes nothing and does not panic, and a
\* start_tracing with a configuration whose file can be opened, or with none,
\* returns Ok and leaves the tracer Running.
C37_FailedStartLeavesUninitialized ==
    /\ [][(ret'.op = "start_tracing" /\ ret'.val = "IoError") =>
             /\ Uninitialized /\ Uninitialized'
             /\ TracerUnchanged]_vars
    /\ [](Uninitialized =>
             /\ \A ev \in HostEvents(clock), io \in IoOutcomes :
                   log_event(World, ev, io) = [w |-> World, panicked |-> FALSE]
             /\ \A config \in Config :
                   (config.log_file = "" \/ config.log_file \in Openable) =>
                       LET r == start_tracing(World, config)
                       IN  r.val = "Ok" /\ r.w.tracer # 0)

\* C37 witness: a start_tracing with a log file in a directory that does not
\* exist has failed, after a first tracer had logged and was stopped.
C37_Witness ==
    /\ ret = [op |-> "start_tracing", val |-> "IoError"]
    /\ Uninitialized
    /\ Len(sinks) = 1
    /\ files[DefaultLogFile] # <<>>

EnterOf(id) == {i \in DOMAIN emitted : emitted[i].id = id /\ emitted[i].ev.event_type = "ENTER"}
FrameIds == {emitted[i].id : i \in DOMAIN emitted}

C40_EveryCallReturns ==
    \A t \in Threads : (pc[t] # "idle") ~> (pc[t] \in {"idle", "panicked"})

====
